---- MODULE Spec2Model ----
(***************************************************************************)
(* gdb-mcp: prompt-synchronised command execution on a gdb child process   *)
(* (GdbSession), the operations of GdbSessionManager built on it, and the  *)
(* command policy of the server settings.                                  *)
(*                                                                         *)
(* Strings are sequences of atoms.  An atom is one character (" ", "\n",   *)
(* "a") or one lexical unit of a command that the program never looks      *)
(* inside ("frame", "print", "call").                                      *)
(***************************************************************************)
EXTENDS Integers, Sequences, FiniteSets, TLC

VARIABLES
    policy,      \* settings.command_policy
    settings,    \* settings.mode and settings.advanced_tools
    target,      \* target[s]: GdbSession.target, <<>> while None
    alive,       \* alive[s]: child.isalive() of Session s
    lockOwner,   \* lockOwner[s]: the thread that holds GdbSession._lock
    inq,         \* inq[s]: lines written to the pty, not yet read by gdb
    busy,        \* busy[s]: the line gdb is executing
    outbuf,      \* outbuf[s]: what gdb printed and pexpect has not consumed
    frame,       \* frame[s]: the frame selected in gdb
    pc,          \* pc[t]: position of caller thread t
    op,          \* op[t]: the operation thread t runs, with its locals
    result,      \* result[t]: what the last operation of t returned or raised
    opsLeft,     \* operations the callers may still start
    collectsLeft, \* crash reports the callers may still request
    registry,    \* the keys of GdbSessionManager._sessions
    spawned,     \* the ids whose gdb process pexpect.spawn has created
    closed,      \* the ids whose child was closed: child.close(force=True)
    arg,         \* the arguments of a function applied on its own
    ret          \* what that function returned or raised

fvars == <<arg, ret>>
rvars == <<registry, spawned, closed>>

vars == <<policy, settings, target, alive, lockOwner, inq, busy, outbuf, frame, pc, op, result,
          opsLeft, collectsLeft, registry, spawned, closed, arg, ret>>

-----------------------------------------------------------------------------
(* Bounds *)

MaxOps == 3
MaxCollects == 1
MaxCmdLen == 3
MaxRawLen == 4
MaxRegistryOps == 3
MaxSignals == 2
MaxToolOps == 2
MaxLines == 4

Sessions == {"s1"}
Callers == {"t1", "t2"}
NoOne == "none"

-----------------------------------------------------------------------------
(* Strings *)

IsSpace(c) == c \in {" ", "\n", "\r"}

RECURSIVE LStrip(_)
LStrip(s) == IF s # <<>> /\ IsSpace(Head(s)) THEN LStrip(Tail(s)) ELSE s

RECURSIVE RStrip(_)
RStrip(s) ==
    IF s # <<>> /\ IsSpace(s[Len(s)]) THEN RStrip(SubSeq(s, 1, Len(s) - 1)) ELSE s

\* str.strip()
Strip(s) == RStrip(LStrip(s))

LowerChar(c) ==
    CASE c = "A" -> "a"
      [] c = "B" -> "b"
      [] c = "CALL" -> "call"
      [] OTHER -> c

\* str.lower()
Lower(s) == [i \in 1..Len(s) |-> LowerChar(s[i])]

\* str.startswith(prefix)
StartsWith(s, p) == Len(p) <= Len(s) /\ SubSeq(s, 1, Len(p)) = p

\* the lines of a text that is written to the pty: split at "\n"
RECURSIVE SplitNL(_, _)
SplitNL(s, cur) ==
    IF s = <<>> THEN (IF cur = <<>> THEN <<>> ELSE <<cur>>)
    ELSE IF Head(s) = "\n" THEN <<cur>> \o SplitNL(Tail(s), <<>>)
    ELSE SplitNL(Tail(s), Append(cur, Head(s)))

\* all strings over an alphabet up to a length
RECURSIVE StringsUpTo(_, _)
StringsUpTo(chars, n) ==
    IF n = 0 THEN {<<>>}
    ELSE LET shorter == StringsUpTo(chars, n - 1) IN
         shorter \cup {Append(x, c) : x \in shorter, c \in chars}

-----------------------------------------------------------------------------
(* Output normalisation: gdb_session.py *)

ESC == "\\x1b"
BEL == "\\x07"

\* the character classes of _ANSI_ESCAPE_RE
IsParam(c) == c \in {"0", ";", "?"}
IsIntermediate(c) == c \in {" ", "/"}
IsCsiFinal(c) == c \in {"a", "b", "m", "h", "A", "B", "[", "]", "\\"}
IsTwoCharFinal(c) == c \in {"A", "B", "]", "\\"}

\* index of the first element of s at or after i that fails the test, as the
\* greedy star of the regular expression leaves it
RECURSIVE SkipParams(_, _)
SkipParams(s, i) ==
    IF i <= Len(s) /\ IsParam(s[i]) THEN SkipParams(s, i + 1) ELSE i

RECURSIVE SkipIntermediates(_, _)
SkipIntermediates(s, i) ==
    IF i <= Len(s) /\ IsIntermediate(s[i]) THEN SkipIntermediates(s, i + 1) ELSE i

RECURSIVE SkipOscBody(_, _)
SkipOscBody(s, i) ==
    IF i <= Len(s) /\ s[i] \notin {BEL, ESC} THEN SkipOscBody(s, i + 1) ELSE i

\* length of the match of _ANSI_ESCAPE_RE at the head of s, 0 when none
EscapeMatchLen(s) ==
    IF Len(s) < 2 \/ s[1] # ESC THEN 0
    ELSE LET c == SkipIntermediates(s, SkipParams(s, 3))
             o == SkipOscBody(s, 3) IN
         IF s[2] = "[" /\ c <= Len(s) /\ IsCsiFinal(s[c]) THEN c
         ELSE IF s[2] = "]" /\ o <= Len(s) /\ s[o] = BEL THEN o
         ELSE IF s[2] = "]" /\ o + 1 <= Len(s) /\ s[o] = ESC /\ s[o + 1] = "\\" THEN o + 1
         ELSE IF IsTwoCharFinal(s[2]) THEN 2
         ELSE 0

\* _strip_terminal_escapes: _ANSI_ESCAPE_RE.sub("", raw)
RECURSIVE StripTerminalEscapes(_)
StripTerminalEscapes(s) ==
    IF s = <<>> THEN <<>>
    ELSE IF EscapeMatchLen(s) > 0
        THEN StripTerminalEscapes(SubSeq(s, EscapeMatchLen(s) + 1, Len(s)))
    ELSE <<Head(s)>> \o StripTerminalEscapes(Tail(s))

\* text.replace("\r\n", "\n").replace("\r", "\n")
RECURSIVE ReplaceCrLf(_)
ReplaceCrLf(s) ==
    IF s = <<>> THEN <<>>
    ELSE IF Len(s) >= 2 /\ s[1] = "\r" /\ s[2] = "\n"
        THEN <<"\n">> \o ReplaceCrLf(SubSeq(s, 3, Len(s)))
    ELSE <<Head(s)>> \o ReplaceCrLf(Tail(s))

ReplaceCr(s) == [i \in 1..Len(s) |-> IF s[i] = "\r" THEN "\n" ELSE s[i]]

\* _normalize_output
NormalizeOutput(raw) == Strip(ReplaceCr(ReplaceCrLf(StripTerminalEscapes(raw))))

\* str.splitlines() of a text without "\r"
RECURSIVE SplitLines(_, _)
SplitLines(s, cur) ==
    IF s = <<>> THEN (IF cur = <<>> THEN <<>> ELSE <<cur>>)
    ELSE IF Head(s) = "\n" THEN <<cur>> \o SplitLines(Tail(s), <<>>)
    ELSE SplitLines(Tail(s), Append(cur, Head(s)))

\* "\n".join(lines)
RECURSIVE JoinLines(_)
JoinLines(lines) ==
    IF lines = <<>> THEN <<>>
    ELSE IF Len(lines) = 1 THEN lines[1]
    ELSE lines[1] \o <<"\n">> \o JoinLines(Tail(lines))

\* the first line is dropped when it repeats the command
DropEcho(lines, command) ==
    IF lines # <<>> /\ Strip(lines[1]) = Strip(command) THEN Tail(lines) ELSE lines

\* what GdbSession.execute returns for child.before when the prompt matched
ExecuteOutput(command, before) ==
    Strip(JoinLines(DropEcho(SplitLines(NormalizeOutput(before), <<>>), command)))

-----------------------------------------------------------------------------
(* Command policy: settings.py *)

AnyPrefix(normalized, prefixes) == \E p \in prefixes : StartsWith(normalized, p)

\* validate with the dangerous-prefix check only on the paths of the modes
\* denylist and none
Validate_AllowlistReturnsEarly(pol, command) ==
    LET normalized == Lower(Strip(command)) IN
    IF normalized = <<>> THEN [exc |-> "ValueError", why |-> "empty"]
    ELSE IF pol.mode = "allowlist" /\ ~AnyPrefix(normalized, pol.allow_prefixes)
        THEN [exc |-> "PermissionError", why |-> "allowlist"]
    ELSE IF pol.mode = "allowlist" THEN [exc |-> "none", why |-> "none"]
    ELSE IF pol.mode = "denylist" /\ AnyPrefix(normalized, pol.deny_prefixes)
        THEN [exc |-> "PermissionError", why |-> "denylist"]
    ELSE IF pol.mode \notin {"allowlist", "denylist", "none"}
        THEN [exc |-> "ValueError", why |-> "mode"]
    ELSE IF AnyPrefix(normalized, pol.dangerous_prefixes)
        THEN [exc |-> "PermissionError", why |-> "dangerous"]
    ELSE [exc |-> "none", why |-> "none"]

\* validate without the deny prefixes in denylist mode
Validate_DenyListNotConsulted(pol, command) ==
    LET normalized == Lower(Strip(command)) IN
    IF normalized = <<>> THEN [exc |-> "ValueError", why |-> "empty"]
    ELSE IF pol.mode = "allowlist" /\ ~AnyPrefix(normalized, pol.allow_prefixes)
        THEN [exc |-> "PermissionError", why |-> "allowlist"]
    ELSE IF pol.mode \notin {"allowlist", "denylist", "none"}
        THEN [exc |-> "ValueError", why |-> "mode"]
    ELSE IF AnyPrefix(normalized, pol.dangerous_prefixes)
        THEN [exc |-> "PermissionError", why |-> "dangerous"]
    ELSE [exc |-> "none", why |-> "none"]

\* CommandPolicy.validate: the exception it raises, "none" when it returns
Validate(pol, command) ==
    LET normalized == Lower(Strip(command)) IN
    IF normalized = <<>> THEN [exc |-> "ValueError", why |-> "empty"]
    ELSE IF pol.mode = "allowlist" /\ ~AnyPrefix(normalized, pol.allow_prefixes)
        THEN [exc |-> "PermissionError", why |-> "allowlist"]
    ELSE IF pol.mode = "denylist" /\ AnyPrefix(normalized, pol.deny_prefixes)
        THEN [exc |-> "PermissionError", why |-> "denylist"]
    ELSE IF pol.mode \notin {"allowlist", "denylist", "none"}
        THEN [exc |-> "ValueError", why |-> "mode"]
    ELSE IF AnyPrefix(normalized, pol.dangerous_prefixes)
        THEN [exc |-> "PermissionError", why |-> "dangerous"]
    ELSE [exc |-> "none", why |-> "none"]

-----------------------------------------------------------------------------
(* Server settings: settings.py, server.py *)

\* DEFAULT_ADVANCED_TOOLS
DefaultAdvancedTools ==
    {"gdb_attach", "gdb_load_core", "gdb_set_watchpoint", "gdb_info_threads",
     "gdb_thread_select", "gdb_frame_select", "gdb_collect_crash_report"}

\* load_server_settings without a config.json and without GDB_MODE
DefaultSettings == [mode |-> "default", advanced_tools |-> DefaultAdvancedTools]

-----------------------------------------------------------------------------
(* The commands of the model *)

CmdPrint == <<"print">>
CmdFrameSelect == <<"frame", " ", "2">>
CmdCall == <<"call">>
CmdShell == <<"shell">>
CmdTwoLines == <<"print", "\n", "call">>

\* the command strings a client passes to gdb_command
CmdPool == {CmdPrint, CmdFrameSelect, CmdCall, CmdShell, CmdTwoLines}

\* str(n) and int(text) for the numbers of the model
Digits == <<"0", "1", "2", "3", "4", "5", "6", "7", "8", "9">>
ToStr(n) == IF n < 10 THEN Digits[n + 1] ELSE IF n = 16 THEN "16" ELSE "20"
ToInt(a) == CHOOSE n \in {0, 1, 2, 3, 4, 5, 6, 7, 8, 9, 16, 20} : ToStr(n) = a

\* the keys of the report of collect_crash_report, in the order of the dict
DiagKeys == <<"program_info", "current_frame", "thread_info", "backtrace",
              "registers", "pc_disassembly", "stack_memory">>

\* the command of each key
DiagCommand(i, args) ==
    CASE i = 1 -> <<"info program">>
      [] i = 2 -> <<"frame">>
      [] i = 3 -> <<"info threads">>
      [] i = 4 -> <<"backtrace", " ", ToStr(args[1])>>
      [] i = 5 -> <<"info registers">>
      [] i = 6 -> <<"x/", ToStr(args[2]), "i", " ", "$pc">>
      [] i = 7 -> <<"x/", ToStr(args[3]), "gx", " ", "$sp">>

\* (backtrace_limit, disasm_count, stack_words) as a caller passes them
CollectArgs == {<<20, 8, 16>>, <<0, 8, 16>>, <<20, 0, 16>>, <<20, 8, 0>>}

-----------------------------------------------------------------------------
(* The gdb process behind the pty *)

Idle == [line |-> <<>>, by |-> "none", emitted |-> FALSE, idle |-> TRUE]
Prompt == [prompt |-> TRUE, line |-> <<>>, frame |-> 0]

\* the query gdb prints for `quit` while it debugs a live process
Confirm == [prompt |-> FALSE, line |-> <<"Quit anyway? (y or n)">>, frame |-> 0]

\* what gdb prints for a command line: `frame` and `frame N` print the frame
GdbText(line, f) ==
    IF line = <<"frame">> THEN [prompt |-> FALSE, line |-> line, frame |-> f]
    ELSE IF Len(line) = 3 /\ line[1] = "frame" /\ line[2] = " "
        THEN [prompt |-> FALSE, line |-> line, frame |-> ToInt(line[3])]
    ELSE [prompt |-> FALSE, line |-> line, frame |-> 0]

\* the frame selected after gdb ran the line
GdbFrameAfter(line, f) ==
    IF Len(line) = 3 /\ line[1] = "frame" /\ line[2] = " " THEN ToInt(line[3]) ELSE f

HasPrompt(buf) == \E i \in 1..Len(buf) : buf[i].prompt
HasConfirm(buf) == \E i \in 1..Len(buf) : buf[i] = Confirm
FirstConfirm(buf) == CHOOSE i \in 1..Len(buf) :
                         buf[i] = Confirm /\ \A j \in 1..(i - 1) : buf[j] # Confirm
FirstPrompt(buf) == CHOOSE i \in 1..Len(buf) :
                        buf[i].prompt /\ \A j \in 1..(i - 1) : ~buf[j].prompt

\* gdb reads the next line of its input when it is at its prompt
GdbRead(s) ==
    /\ alive[s] /\ busy[s].idle /\ inq[s] # <<>>
    /\ busy' = [busy EXCEPT ![s] = [line |-> Head(inq[s]).line, by |-> Head(inq[s]).by,
                                    emitted |-> FALSE, idle |-> FALSE]]
    /\ inq' = [inq EXCEPT ![s] = Tail(inq[s])]
    /\ UNCHANGED <<fvars, rvars, policy, settings, target, alive, lockOwner, outbuf, frame, pc, op, result, opsLeft, collectsLeft>>

\* gdb prints the output of the running command; the prompt is not there yet
GdbEmit(s) ==
    /\ alive[s] /\ ~busy[s].idle /\ ~busy[s].emitted
    /\ busy[s].line # <<"quit">>
    /\ outbuf' = [outbuf EXCEPT ![s] = Append(outbuf[s], GdbText(busy[s].line, frame[s]))]
    /\ busy' = [busy EXCEPT ![s].emitted = TRUE]
    /\ UNCHANGED <<fvars, rvars, policy, settings, target, alive, lockOwner, inq, frame, pc, op, result, opsLeft, collectsLeft>>

\* gdb finishes the running command and prints the ready prompt; `quit` ends
\* the process instead, unless gdb asks for the confirmation
GdbFinish(s) ==
    /\ alive[s] /\ ~busy[s].idle
    /\ busy[s].line = <<"quit">> => ~busy[s].emitted
    /\ IF busy[s].line = <<"quit">>
       THEN /\ alive' = [alive EXCEPT ![s] = FALSE]
            /\ inq' = [inq EXCEPT ![s] = <<>>]
            /\ UNCHANGED <<outbuf, frame>>
       ELSE /\ outbuf' = [outbuf EXCEPT ![s] =
                    (IF busy[s].emitted THEN outbuf[s]
                     ELSE Append(outbuf[s], GdbText(busy[s].line, frame[s])))
                    \o <<Prompt>>]
            /\ frame' = [frame EXCEPT ![s] = GdbFrameAfter(busy[s].line, frame[s])]
            /\ UNCHANGED <<alive, inq>>
    /\ busy' = [busy EXCEPT ![s] = Idle]
    /\ UNCHANGED <<fvars, rvars, policy, settings, target, lockOwner, pc, op, result, opsLeft, collectsLeft>>

\* gdb answers `quit` with the query and waits for the reply
GdbAskConfirm(s) ==
    /\ alive[s] /\ ~busy[s].idle /\ ~busy[s].emitted
    /\ busy[s].line = <<"quit">>
    /\ outbuf' = [outbuf EXCEPT ![s] = Append(outbuf[s], Confirm)]
    /\ busy' = [busy EXCEPT ![s].emitted = TRUE]
    /\ UNCHANGED <<fvars, rvars, policy, settings, target, alive, lockOwner, inq, frame, pc, op, result, opsLeft, collectsLeft>>

\* gdb reads the reply to the query: `y` ends the process, any other line
\* makes gdb ask again
GdbAnswer(s) ==
    /\ alive[s] /\ ~busy[s].idle /\ busy[s].emitted
    /\ busy[s].line = <<"quit">>
    /\ inq[s] # <<>>
    /\ IF Head(inq[s]).line = <<"y">>
       THEN /\ alive' = [alive EXCEPT ![s] = FALSE]
            /\ inq' = [inq EXCEPT ![s] = <<>>]
            /\ busy' = [busy EXCEPT ![s] = Idle]
            /\ UNCHANGED outbuf
       ELSE /\ inq' = [inq EXCEPT ![s] = Tail(inq[s])]
            /\ outbuf' = [outbuf EXCEPT ![s] = Append(outbuf[s], Confirm)]
            /\ UNCHANGED <<alive, busy>>
    /\ UNCHANGED <<fvars, rvars, policy, settings, target, lockOwner, frame, pc, op, result, opsLeft, collectsLeft>>

\* the process exits on its own (crash, kill from outside)
GdbExit(s) ==
    /\ alive[s]
    /\ alive' = [alive EXCEPT ![s] = FALSE]
    /\ busy' = [busy EXCEPT ![s] = Idle]
    /\ inq' = [inq EXCEPT ![s] = <<>>]
    /\ UNCHANGED <<fvars, rvars, policy, settings, target, lockOwner, outbuf, frame, pc, op, result, opsLeft, collectsLeft>>

-----------------------------------------------------------------------------
(* The operations of gdb_manager.py with checked arguments, and their tools *)

\* the files of the model's file system, as resolved absolute paths
Files == {<<"/", "wd", "/", "prog">>, <<"/", "wd", "/", "core">>,
          <<"/", "wd", "/", "my", " ", "core">>, <<"/", "opt", "/", "prog">>}

\* Path(p) if it is absolute, else (working_dir / p).resolve(); the
\* working_dir of the Session is /wd
ResolvePath(p) == IF p # <<>> /\ Head(p) = "/" THEN p ELSE <<"/", "wd", "/">> \o p

\* the arguments of a call; `given` tells whether the optional list
\* (breakpoint_ids, arguments) was passed, items[i] whether the i-th argument
\* of the program is a str
NoCall == [name |-> "none", sid |-> "s1", given |-> FALSE, ids |-> <<>>, enabled |-> TRUE,
           expr |-> <<>>, mode |-> "write", n |-> 1, items |-> <<>>, program |-> <<>>,
           core |-> <<>>, fmt |-> "x"]

\* the calls a client makes: every tool with arguments that pass and
\* arguments that each of its checks rejects
ToolCalls ==
    {[NoCall EXCEPT !.name = "gdb_toggle_breakpoints", !.sid = x[1], !.ids = x[2],
                    !.enabled = x[3]] :
        x \in {<<"s1", <<1, 2>>, TRUE>>, <<"s1", <<1>>, FALSE>>, <<"s1", <<>>, TRUE>>,
               <<"s1", <<2, 0>>, TRUE>>, <<"s2", <<>>, TRUE>>, <<"s2", <<0>>, FALSE>>,
               <<"s2", <<1>>, TRUE>>}}
    \cup {[NoCall EXCEPT !.name = "gdb_delete_breakpoints", !.given = x[1], !.ids = x[2]] :
        x \in {<<FALSE, <<>>>>, <<TRUE, <<>>>>, <<TRUE, <<0>>>>, <<TRUE, <<3>>>>}}
    \cup {[NoCall EXCEPT !.name = "gdb_set_watchpoint", !.sid = x[1], !.expr = x[2],
                    !.mode = x[3]] :
        x \in {<<"s1", <<"x">>, "write">>, <<"s1", <<"x">>, "read">>,
               <<"s1", <<"x">>, "access">>, <<"s1", <<"x">>, "bad">>,
               <<"s1", <<" ">>, "write">>, <<"s1", <<>>, "bad">>,
               <<"s2", <<>>, "write">>, <<"s2", <<"x">>, "bad">>, <<"s2", <<"x">>, "read">>}}
    \cup {[NoCall EXCEPT !.name = x[1], !.n = x[2]] :
        x \in {"gdb_thread_select", "frame_up", "frame_down"} \X {0, 2}}
    \cup {[NoCall EXCEPT !.name = "set_program_args", !.sid = x[1], !.items = x[2]] :
        x \in {<<"s1", <<>>>>, <<"s1", <<TRUE>>>>, <<"s1", <<TRUE, FALSE>>>>,
               <<"s2", <<FALSE>>>>}}
    \cup {[NoCall EXCEPT !.name = "gdb_load", !.program = x[1], !.given = x[2],
                    !.items = x[3]] :
        x \in {<<<<"prog">>, FALSE, <<>>>>, <<<<"prog">>, TRUE, <<TRUE>>>>,
               <<<<"prog">>, TRUE, <<FALSE>>>>, <<<<"gone">>, FALSE, <<>>>>,
               <<<<"/", "opt", "/", "prog">>, FALSE, <<>>>>,
               <<<<"/", "prog">>, FALSE, <<>>>>}}
    \cup {[NoCall EXCEPT !.name = "gdb_load_core", !.program = x[1], !.core = x[2]] :
        x \in {<<<<"prog">>, <<"core">>>>, <<<<"prog">>, <<"/", "wd", "/", "core">>>>,
               <<<<"prog">>, <<"my", " ", "core">>>>, <<<<"prog">>, <<"gone">>>>,
               <<<<"gone">>, <<"core">>>>}}
    \cup {[NoCall EXCEPT !.name = "gdb_examine", !.expr = x[1], !.fmt = x[2], !.n = x[3]] :
        x \in {<<<<"$sp">>, "x", 1>>, <<<<"$sp">>, "q", 1>>, <<<<"$sp">>, "x", 0>>,
               <<<<>>, "x", 1>>}}

\* the tool functions of server.py
ServerTools ==
    {"gdb_get_capabilities", "gdb_start", "gdb_load", "gdb_command", "gdb_terminate",
     "gdb_list_sessions", "gdb_attach", "gdb_load_core", "gdb_set_breakpoint",
     "gdb_list_breakpoints", "gdb_delete_breakpoints", "gdb_toggle_breakpoints",
     "gdb_set_watchpoint", "gdb_continue", "gdb_step", "gdb_next", "gdb_backtrace",
     "gdb_print", "gdb_examine", "gdb_info_registers", "gdb_info_threads",
     "gdb_thread_select", "gdb_frame_select", "gdb_collect_crash_report"}

\* the tool functions under @_advanced_tool, which begin with _require_advanced
Gated == {"gdb_attach", "gdb_load_core", "gdb_set_watchpoint", "gdb_info_threads",
          "gdb_thread_select", "gdb_frame_select", "gdb_collect_crash_report"}

\* _advanced_tool: the function is registered with mcp.tool() unless its name
\* is in advanced_tools and the mode is not advanced; @mcp.tool() registers
Exposed(name) ==
    name \in ServerTools
        /\ (name \in Gated =>
                ~(name \in settings.advanced_tools /\ settings.mode # "advanced"))

\* a check of the numbers that accepts zero
BadNumbers_ZeroAccepted(values) == \E i \in 1..Len(values) : values[i] < 0

\* _validate_positive_int fails on one of the values
BadNumbers(values) == \E i \in 1..Len(values) : values[i] <= 0

\* what the tool function and the manager operation test before the first
\* command, in the order of the code: the exception raised, or "none"
ArgCheck(c, reg) ==
    LET notFound == IF c.sid \in reg THEN "none" ELSE "SessionNotFoundError"
        first(a, b) == IF a # "none" THEN a ELSE b
        badIds == IF c.ids = <<>> \/ BadNumbers(c.ids) THEN "ValueError" ELSE "none"
        badItems == IF \E i \in 1..Len(c.items) : ~c.items[i] THEN "ValueError" ELSE "none"
        gate == IF c.name \in Gated /\ c.name \in settings.advanced_tools
                     /\ settings.mode # "advanced"
                THEN "PermissionError" ELSE "none"
        checks ==
            CASE c.name = "gdb_toggle_breakpoints" -> first(badIds, notFound)
              [] c.name = "gdb_delete_breakpoints" ->
                    IF c.given THEN first(badIds, notFound) ELSE notFound
              [] c.name = "gdb_set_watchpoint" ->
                    first(IF Strip(c.expr) = <<>>
                               \/ c.mode \notin {"write", "read", "access"}
                          THEN "ValueError" ELSE "none", notFound)
              [] c.name \in {"gdb_thread_select", "frame_up", "frame_down"} ->
                    first(IF BadNumbers(<<c.n>>) THEN "ValueError" ELSE "none", notFound)
              [] c.name = "set_program_args" -> first(notFound, badItems)
              [] c.name = "gdb_load" ->
                    first(IF c.given THEN badItems ELSE "none",
                          first(notFound,
                                IF ResolvePath(c.program) \in Files THEN "none"
                                ELSE "FileNotFoundError"))
              [] OTHER -> notFound
    IN first(gate, checks)

\* the commands the operation passes to session.execute, in order
ToolCommands(c) ==
    LET RECURSIVE Numbers(_)
        Numbers(v) == IF v = <<>> THEN <<>>
                      ELSE IF Len(v) = 1 THEN <<ToStr(v[1])>>
                      ELSE <<ToStr(v[1]), " ">> \o Numbers(Tail(v))
        setArgs == IF c.items = <<>> THEN <<"set args">>
                   ELSE <<"set args", " ">> \o [i \in 1..Len(c.items) |-> "arg"]
    IN
    CASE c.name = "gdb_toggle_breakpoints" ->
            << <<IF c.enabled THEN "enable" ELSE "disable", " ">> \o Numbers(c.ids) >>
      [] c.name = "gdb_delete_breakpoints" ->
            << IF c.given THEN <<"delete", " ">> \o Numbers(c.ids) ELSE <<"delete">> >>
      [] c.name = "gdb_set_watchpoint" ->
            << <<CASE c.mode = "write" -> "watch" [] c.mode = "read" -> "rwatch"
                   [] OTHER -> "awatch", " ">> \o c.expr >>
      [] c.name = "gdb_thread_select" -> << <<"thread", " ", ToStr(c.n)>> >>
      [] c.name = "frame_up" -> << <<"up", " ", ToStr(c.n)>> >>
      [] c.name = "frame_down" -> << <<"down", " ", ToStr(c.n)>> >>
      [] c.name = "set_program_args" -> <<setArgs>>
      [] c.name = "gdb_load" ->
            << <<"file", " ", "\"">> \o ResolvePath(c.program) \o <<"\"">> >>
                \o (IF c.given THEN <<setArgs>> ELSE <<>>)
      [] c.name = "gdb_load_core" ->
            << <<"file", " ", "\"">> \o c.program \o <<"\"">>,
               <<"core-file", " ", "\"">> \o c.core \o <<"\"">>,
               <<"backtrace">> >>
      [] c.name = "gdb_examine" -> << <<"x/", ToStr(c.n), c.fmt, " ">> \o c.expr >>

-----------------------------------------------------------------------------
(* Caller threads *)

NoField == [set |-> FALSE, err |-> FALSE, kind |-> "", msg |-> "", text |-> <<>>]
NoReport == [i \in 1..7 |-> NoField]
NoOp == [kind |-> "none", sid |-> "s1", cmd |-> <<>>, args |-> <<0, 0, 0>>, idx |-> 0,
         report |-> NoReport, log |-> <<>>, frame0 |-> 0, ids |-> <<>>, call |-> NoCall]
NoResult == [tool |-> "none", ok |-> TRUE, error_type |-> "", msg |-> "", text |-> <<>>,
             raised |-> FALSE]

\* the outcomes of GdbSession.execute
Returned(out) == [exc |-> "none", msg |-> "", text |-> out]
Raised(exc, msg, partial) == [exc |-> exc, msg |-> msg, text |-> partial]

\* server._ok and server._err
ToolOk(tool, out) ==
    [tool |-> tool, ok |-> TRUE, error_type |-> "", msg |-> "", text |-> out,
     raised |-> FALSE]
ToolErr(tool, exc, msg, partial) ==
    [tool |-> tool, ok |-> FALSE, error_type |-> exc, msg |-> msg, text |-> partial,
     raised |-> FALSE]

\* a tuple of exceptions without ValueError
Recoverable_NoValueError(exc) ==
    exc \in {"FileNotFoundError", "PermissionError", "OSError", "GdbSessionError",
             "GdbCommandTimeoutError", "SessionNotFoundError"}

\* except RECOVERABLE_ERRORS catches the exception
Recoverable(exc) ==
    exc \in {"FileNotFoundError", "PermissionError", "ValueError", "OSError",
             "GdbSessionError", "GdbCommandTimeoutError", "SessionNotFoundError"}

\* how an operation that failed ends: a tool function returns _err(exc) for
\* the exceptions it catches; any other exception, and every exception of an
\* operation of the manager called without a tool function, is raised
ToolFails(c, exc, msg, partial) ==
    [ToolErr(c.name, exc, msg, partial) EXCEPT
        !.raised = ~(c.name \in ServerTools /\ Recoverable(exc))]

\* a loop that catches only ValueError and OSError
CollectCatches_NotSessionErrors(exc) == exc \in {"ValueError", "OSError"}

\* the exceptions the loop of collect_crash_report catches
CollectCatches(exc) == exc \in {"GdbSessionError", "GdbCommandTimeoutError",
                               "SessionNotFoundError", "ValueError", "OSError"}

\* the value collect_crash_report stores for a key
ReportField(outcome) ==
    IF outcome.exc = "none"
    THEN [set |-> TRUE, err |-> FALSE, kind |-> "", msg |-> "", text |-> outcome.text]
    ELSE [set |-> TRUE, err |-> TRUE, kind |-> outcome.exc, msg |-> outcome.msg,
          text |-> outcome.text]

\* the caller's code after session.execute returned or raised; op[t].log is
\* the list of the execute calls of the operation with their outcomes
AfterExecute(t, outcome) ==
    LET log == Append(op[t].log, [cmd |-> op[t].cmd, exc |-> outcome.exc,
                                  msg |-> outcome.msg, text |-> outcome.text])
        RECURSIVE Outputs(_)
        Outputs(l) == IF l = <<>> THEN <<>> ELSE Head(l).text \o Outputs(Tail(l)) IN
    IF op[t].kind = "collect" /\ (outcome.exc = "none" \/ CollectCatches(outcome.exc))
    THEN LET rep == [op[t].report EXCEPT ![op[t].idx] = ReportField(outcome)] IN
         IF op[t].idx < 7
         THEN /\ op' = [op EXCEPT ![t].report = rep, ![t].idx = op[t].idx + 1,
                                  ![t].cmd = DiagCommand(op[t].idx + 1, op[t].args),
                                  ![t].log = log]
              /\ pc' = [pc EXCEPT ![t] = "exec"]
              /\ UNCHANGED <<result, target>>
         ELSE /\ op' = [op EXCEPT ![t].report = rep, ![t].log = log]
              /\ pc' = [pc EXCEPT ![t] = "idle"]
              /\ result' = [result EXCEPT ![t] = ToolOk("collect", <<>>)]
              /\ UNCHANGED target
    ELSE IF op[t].kind = "tool"
    THEN IF outcome.exc = "none" /\ op[t].idx < Len(ToolCommands(op[t].call))
         THEN /\ op' = [op EXCEPT ![t].idx = op[t].idx + 1,
                                  ![t].cmd = ToolCommands(op[t].call)[op[t].idx + 1],
                                  ![t].log = log]
              /\ pc' = [pc EXCEPT ![t] = "exec"]
              /\ UNCHANGED <<result, target>>
         ELSE /\ pc' = [pc EXCEPT ![t] = "idle"]
              /\ op' = [op EXCEPT ![t].log = log]
              /\ result' = [result EXCEPT ![t] =
                     IF outcome.exc = "none" THEN ToolOk(op[t].call.name, Outputs(log))
                     ELSE ToolFails(op[t].call, outcome.exc, outcome.msg, outcome.text)]
              /\ target' = IF outcome.exc = "none" /\ op[t].call.name = "gdb_load"
                           THEN [target EXCEPT ![op[t].sid] =
                                     ResolvePath(op[t].call.program)]
                           ELSE target
    ELSE /\ pc' = [pc EXCEPT ![t] = "idle"]
         /\ op' = [op EXCEPT ![t].log = log]
         /\ result' = [result EXCEPT ![t] =
                IF outcome.exc = "none" THEN ToolOk(op[t].kind, outcome.text)
                ELSE ToolErr(op[t].kind, outcome.exc, outcome.msg, outcome.text)]
         /\ UNCHANGED target

\* the code of the signal handler and of the atexit hook runs on the main
\* thread: "sig1" interrupts "main", "sig2" interrupts "sig1"
ThreadOf(t) == IF t \in {"main", "sig1", "sig2"} THEN "main" ELSE t
Interrupts(t) == IF t = "main" THEN {"sig1", "sig2"}
                 ELSE IF t = "sig1" THEN {"sig2"} ELSE {}

\* the code of t is not suspended under a running signal handler
Runnable(t) == \A h \in Interrupts(t) : pc[h] = "idle"

\* a lock that never blocks
LockFree_NoMutex(s, t) == TRUE

\* one lock shared by all Sessions
LockFree_OneLockForAll(s, t) ==
    \A x \in DOMAIN lockOwner : lockOwner[x] \in {NoOne, ThreadOf(t)}

\* threading.RLock: free, or held by the acquiring thread itself
LockFree(s, t) == lockOwner[s] \in {NoOne, ThreadOf(t)}

\* t is inside `with self._lock` of Session s
Holds(t, s) == op[t].sid = s /\ pc[t] \in {"wait", "term_wait", "term_eof"}

\* an exit path that keeps the lock
Unlock_NotReleased(s, t) == lockOwner[s]

\* the owner of the lock after t leaves its `with self._lock`: the RLock stays
\* with the thread while an interrupted block of the same thread is inside
Unlock(s, t) ==
    IF \E u \in DOMAIN pc : u # t /\ ThreadOf(u) = ThreadOf(t) /\ Holds(u, s)
    THEN lockOwner[s] ELSE NoOne

\* the liveness check left out
IsAlive_NotChecked(s) == TRUE

\* child.isalive()
IsAlive(s) == alive[s]

\* the timeout error without child.before
OnTimeout_DropsPartial(partial) == Raised("GdbCommandTimeoutError", "timeout", <<>>)

\* except pexpect.TIMEOUT: the partial output goes into the message
OnTimeout(partial) == Raised("GdbCommandTimeoutError", "timeout", partial)

\* the end of the process reported as a timeout
OnEOF_AsTimeout(partial) == Raised("GdbCommandTimeoutError", "terminated", partial)

\* except pexpect.EOF: the partial output goes into the message
OnEOF(partial) == Raised("GdbSessionError", "terminated", partial)

\* GdbSession.execute up to sendline: take the lock, check the process, send
ExecStart(t) ==
    LET s == op[t].sid IN
    /\ pc[t] = "exec" /\ Runnable(t)
    /\ LockFree(s, t)
    /\ IF ~IsAlive(s)
       THEN /\ AfterExecute(t, Raised("GdbSessionError", "not alive", <<>>))
            /\ UNCHANGED <<lockOwner, inq>>
       ELSE /\ inq' = [inq EXCEPT ![s] = inq[s] \o
                        [i \in 1..Len(SplitNL(op[t].cmd \o <<"\n">>, <<>>)) |->
                            [line |-> SplitNL(op[t].cmd \o <<"\n">>, <<>>)[i],
                             by |-> op[t].kind]]]
            /\ lockOwner' = [lockOwner EXCEPT ![s] = ThreadOf(t)]
            /\ pc' = [pc EXCEPT ![t] = "wait"]
            /\ UNCHANGED <<op, result, target>>
    /\ UNCHANGED <<fvars, rvars, policy, settings, alive, busy, outbuf, frame, opsLeft, collectsLeft>>

\* child.before: what was read and not matched
Texts(buf) == buf

\* expect_exact("(gdb)") matches: everything before the first prompt is the output
ExecPrompt(t) ==
    LET s == op[t].sid
        k == FirstPrompt(outbuf[s]) IN
    /\ pc[t] = "wait" /\ Runnable(t)
    /\ HasPrompt(outbuf[s])
    /\ outbuf' = [outbuf EXCEPT ![s] = SubSeq(outbuf[s], k + 1, Len(outbuf[s]))]
    /\ lockOwner' = [lockOwner EXCEPT ![s] = Unlock(s, t)]
    /\ AfterExecute(t, Returned(Texts(SubSeq(outbuf[s], 1, k - 1))))
    /\ UNCHANGED <<fvars, rvars, policy, settings, alive, inq, busy, frame, opsLeft, collectsLeft>>

\* pexpect.TIMEOUT: no prompt arrived in time; the buffer is kept
ExecTimeout(t) ==
    LET s == op[t].sid IN
    /\ pc[t] = "wait" /\ Runnable(t)
    /\ alive[s]
    /\ ~HasPrompt(outbuf[s])
    /\ lockOwner' = [lockOwner EXCEPT ![s] = Unlock(s, t)]
    /\ AfterExecute(t, OnTimeout(Texts(outbuf[s])))
    /\ UNCHANGED <<fvars, rvars, policy, settings, alive, inq, busy, outbuf, frame, opsLeft, collectsLeft>>

\* pexpect.EOF: the process is gone and no prompt is left to read; an
\* interrupted wait whose child a signal handler has closed meanwhile ends
\* with the error of the closed file, which execute does not catch
ExecEOF(t) ==
    LET s == op[t].sid IN
    /\ pc[t] = "wait" /\ Runnable(t)
    /\ ~alive[s]
    /\ ~HasPrompt(outbuf[s])
    /\ outbuf' = [outbuf EXCEPT ![s] = <<>>]
    /\ lockOwner' = [lockOwner EXCEPT ![s] = Unlock(s, t)]
    /\ IF s \in closed
       THEN \E exc \in {"ValueError", "OSError"} :
                AfterExecute(t, Raised(exc, "closed", <<>>))
       ELSE AfterExecute(t, OnEOF(Texts(outbuf[s])))
    /\ UNCHANGED <<fvars, rvars, policy, settings, alive, inq, busy, frame, opsLeft, collectsLeft>>

\* server.gdb_command: the policy check, then manager.command with its
\* lookup of the session
GdbCommand(t, s, command) ==
    /\ pc[t] = "idle" /\ opsLeft > 0 /\ Runnable(t)
    /\ opsLeft' = opsLeft - 1
    /\ IF Validate(policy, command).exc # "none"
       THEN /\ result' = [result EXCEPT ![t] =
                    ToolErr("command", Validate(policy, command).exc,
                            Validate(policy, command).why, <<>>)]
            /\ op' = [op EXCEPT ![t] = [NoOp EXCEPT !.cmd = command]]
            /\ UNCHANGED pc
       ELSE IF s \notin registry
       THEN /\ result' = [result EXCEPT ![t] =
                    ToolErr("command", "SessionNotFoundError", "no session", <<>>)]
            /\ op' = [op EXCEPT ![t] = [NoOp EXCEPT !.kind = "command", !.sid = s,
                                                    !.cmd = command]]
            /\ UNCHANGED pc
       ELSE /\ op' = [op EXCEPT ![t] = [NoOp EXCEPT !.kind = "command", !.sid = s,
                                                    !.cmd = command]]
            /\ pc' = [pc EXCEPT ![t] = "exec"]
            /\ result' = [result EXCEPT ![t] = NoResult]
    /\ UNCHANGED <<fvars, rvars, policy, settings, target, alive, lockOwner, inq, busy, outbuf, frame, collectsLeft>>

\* a tool function, or an operation of the manager called directly, up to
\* its first command: the checks of the arguments and the lookup
ToolCall(t, c) ==
    /\ pc[t] = "idle" /\ opsLeft > 0
    /\ opsLeft' = opsLeft - 1
    /\ IF ArgCheck(c, registry) # "none"
       THEN /\ result' = [result EXCEPT ![t] =
                    ToolFails(c, ArgCheck(c, registry), "rejected", <<>>)]
            /\ op' = [op EXCEPT ![t] = [NoOp EXCEPT !.kind = "tool", !.sid = c.sid,
                                                    !.call = c]]
            /\ UNCHANGED pc
       ELSE /\ op' = [op EXCEPT ![t] = [NoOp EXCEPT !.kind = "tool", !.sid = c.sid,
                                                    !.call = c, !.idx = 1,
                                                    !.cmd = ToolCommands(c)[1]]]
            /\ pc' = [pc EXCEPT ![t] = "exec"]
            /\ result' = [result EXCEPT ![t] = NoResult]
    /\ UNCHANGED <<fvars, rvars, policy, settings, target, alive, lockOwner, inq, busy, outbuf, frame, collectsLeft>>

\* GdbSessionManager.collect_crash_report up to its first command
CollectCrashReport(t, s, args) ==
    /\ pc[t] = "idle" /\ collectsLeft > 0
    /\ collectsLeft' = collectsLeft - 1
    /\ IF \E i \in 1..3 : args[i] <= 0
       THEN /\ result' = [result EXCEPT ![t] =
                    ToolErr("collect", "ValueError", "must be > 0", <<>>)]
            /\ op' = [op EXCEPT ![t] = NoOp]
            /\ UNCHANGED pc
       ELSE /\ op' = [op EXCEPT ![t] = [NoOp EXCEPT !.kind = "collect", !.sid = s,
                                                    !.idx = 1, !.frame0 = frame[s],
                                                    !.args = args,
                                                    !.cmd = DiagCommand(1, args)]]
            /\ pc' = [pc EXCEPT ![t] = "exec"]
            /\ result' = [result EXCEPT ![t] = NoResult]
    /\ UNCHANGED <<fvars, rvars, policy, settings, target, alive, lockOwner, inq, busy, outbuf, frame, opsLeft>>

\* a loop that catches only OSError and ValueError
TerminateAllCatches_NotSessionErrors(exc) == exc \in {"OSError", "ValueError"}

\* the exceptions the loop of terminate_all catches
TerminateAllCatches(exc) == exc \in {"GdbSessionError", "GdbCommandTimeoutError",
                                    "SessionNotFoundError", "OSError", "ValueError"}

\* the ids of a registry in the order of the dict: the order of their start
KeysInOrder(reg) ==
    SelectSeq(<<"s1", "s2">>, LAMBDA id : id \in reg)

\* GdbSession.terminate is called
Terminate(t, s) ==
    /\ pc[t] = "idle" /\ opsLeft > 0
    /\ opsLeft' = opsLeft - 1
    /\ op' = [op EXCEPT ![t] = [NoOp EXCEPT !.kind = "terminate", !.sid = s]]
    /\ pc' = [pc EXCEPT ![t] = "term"]
    /\ result' = [result EXCEPT ![t] = NoResult]
    /\ UNCHANGED <<fvars, rvars, policy, settings, target, alive, lockOwner, inq, busy, outbuf, frame, collectsLeft>>

\* GdbSessionManager.terminate_session up to session.terminate()
TerminateSession(t, id) ==
    /\ pc[t] = "idle" /\ opsLeft > 0
    /\ opsLeft' = opsLeft - 1
    /\ IF id \notin registry
       THEN /\ op' = [op EXCEPT ![t] = [NoOp EXCEPT !.kind = "terminate_session",
                                                    !.sid = id]]
            /\ result' = [result EXCEPT ![t] =
                    ToolErr("terminate_session", "SessionNotFoundError", "no session", <<>>)]
            /\ UNCHANGED pc
       ELSE /\ op' = [op EXCEPT ![t] = [NoOp EXCEPT !.kind = "terminate_session",
                                                    !.sid = id]]
            /\ pc' = [pc EXCEPT ![t] = "term"]
            /\ result' = [result EXCEPT ![t] = NoResult]
    /\ UNCHANGED <<fvars, rvars, policy, settings, target, alive, lockOwner, inq, busy, outbuf, frame, collectsLeft>>

\* GdbSessionManager.terminate_all: the snapshot of the keys
TerminateAll(t) ==
    /\ pc[t] = "idle" /\ opsLeft > 0
    /\ opsLeft' = opsLeft - 1
    /\ op' = [op EXCEPT ![t] = [NoOp EXCEPT !.kind = "terminate_all", !.idx = 1,
                                            !.ids = KeysInOrder(registry)]]
    /\ pc' = [pc EXCEPT ![t] = "loop"]
    /\ result' = [result EXCEPT ![t] = NoResult]
    /\ UNCHANGED <<fvars, rvars, policy, settings, target, alive, lockOwner, inq, busy, outbuf, frame, collectsLeft>>

\* the loop of terminate_all: terminate_session(session_id) up to
\* session.terminate(), or the return after the last id; op[t].log is the
\* list of the ids tried with their outcomes
LoopNext(t) ==
    /\ pc[t] = "loop" /\ Runnable(t)
    /\ IF op[t].idx > Len(op[t].ids)
       THEN /\ pc' = [pc EXCEPT ![t] = "idle"]
            /\ result' = [result EXCEPT ![t] = ToolOk("terminate_all", <<>>)]
            /\ UNCHANGED op
       ELSE IF op[t].ids[op[t].idx] \notin registry
       THEN /\ op' = [op EXCEPT ![t].idx = op[t].idx + 1,
                                ![t].log = Append(op[t].log,
                                    [cmd |-> <<op[t].ids[op[t].idx]>>,
                                     exc |-> "SessionNotFoundError",
                                     msg |-> "no session", text |-> <<>>])]
            /\ IF TerminateAllCatches("SessionNotFoundError")
               THEN UNCHANGED <<pc, result>>
               ELSE /\ pc' = [pc EXCEPT ![t] = "idle"]
                    /\ result' = [result EXCEPT ![t] =
                            ToolErr("terminate_all", "SessionNotFoundError",
                                    "no session", <<>>)]
       ELSE /\ op' = [op EXCEPT ![t].sid = op[t].ids[op[t].idx]]
            /\ pc' = [pc EXCEPT ![t] = "term"]
            /\ UNCHANGED result
    /\ UNCHANGED <<fvars, rvars, policy, settings, target, alive, lockOwner, inq, busy, outbuf, frame, opsLeft, collectsLeft>>

\* the caller's code after session.terminate() returned or raised; `how` is
\* the way the wait for the exit ended
AfterTerminate(t, exc, how) ==
    LET log == Append(op[t].log, [cmd |-> <<op[t].sid>>, exc |-> exc, msg |-> how,
                                  text |-> <<>>]) IN
    IF exc = "none" /\ op[t].kind \in {"terminate_session", "terminate_all"}
    THEN /\ pc' = [pc EXCEPT ![t] = "pop"]
         /\ op' = [op EXCEPT ![t].log = log]
         /\ UNCHANGED result
    ELSE IF op[t].kind = "terminate_all" /\ TerminateAllCatches(exc)
    THEN /\ pc' = [pc EXCEPT ![t] = "loop"]
         /\ op' = [op EXCEPT ![t].idx = op[t].idx + 1, ![t].log = log]
         /\ UNCHANGED result
    ELSE /\ pc' = [pc EXCEPT ![t] = "idle"]
         /\ op' = [op EXCEPT ![t].log = log]
         /\ result' = [result EXCEPT ![t] =
                IF exc = "none" THEN ToolOk(op[t].kind, <<>>)
                ELSE ToolErr(op[t].kind, exc, "", <<>>)]

\* a pop that removes nothing
Popped_Nothing(reg, id) == reg

\* the dict cleared instead of one key popped
Popped_All(reg, id) == {}

\* self._sessions.pop(session_id, None)
Popped(reg, id) == reg \ {id}

\* terminate_session after session.terminate() returned: the pop
Pop(t) ==
    /\ pc[t] = "pop" /\ Runnable(t)
    /\ registry' = Popped(registry, op[t].sid)
    /\ IF op[t].kind = "terminate_all"
       THEN /\ pc' = [pc EXCEPT ![t] = "loop"]
            /\ op' = [op EXCEPT ![t].idx = op[t].idx + 1]
            /\ UNCHANGED result
       ELSE /\ pc' = [pc EXCEPT ![t] = "idle"]
            /\ result' = [result EXCEPT ![t] = ToolOk(op[t].kind, <<>>)]
            /\ UNCHANGED op
    /\ UNCHANGED <<fvars, spawned, closed, policy, settings, target, alive, lockOwner, inq, busy, outbuf, frame, opsLeft, collectsLeft>>

\* child.sendline(line): a line written to the pty of a process that has
\* exited is read by nobody
SendLine(s, line, by) ==
    IF alive[s] THEN Append(inq[s], [line |-> line, by |-> by]) ELSE inq[s]

\* GdbSession.terminate: take the lock; return if the process is dead, else
\* send quit
TermStart(t) ==
    LET s == op[t].sid IN
    /\ pc[t] = "term" /\ Runnable(t)
    /\ LockFree(s, t)
    /\ IF ~IsAlive(s)
       THEN /\ AfterTerminate(t, "none", "not alive")
            /\ UNCHANGED <<lockOwner, inq>>
       ELSE /\ inq' = [inq EXCEPT ![s] = SendLine(s, <<"quit">>, "terminate")]
            /\ lockOwner' = [lockOwner EXCEPT ![s] = ThreadOf(t)]
            /\ pc' = [pc EXCEPT ![t] = "term_wait"]
            /\ UNCHANGED <<op, result>>
    /\ UNCHANGED <<fvars, rvars, policy, settings, target, alive, busy, outbuf, frame, opsLeft, collectsLeft>>

\* expect_exact(["Quit anyway? (y or n)", EOF]) matches the query: send `y`
\* and wait for the exit
TermConfirm(t) ==
    LET s == op[t].sid
        k == FirstConfirm(outbuf[s]) IN
    /\ pc[t] = "term_wait" /\ Runnable(t)
    /\ s \notin closed
    /\ HasConfirm(outbuf[s])
    /\ outbuf' = [outbuf EXCEPT ![s] = SubSeq(outbuf[s], k + 1, Len(outbuf[s]))]
    /\ inq' = [inq EXCEPT ![s] = SendLine(s, <<"y">>, "terminate")]
    /\ pc' = [pc EXCEPT ![t] = "term_eof"]
    /\ UNCHANGED <<fvars, rvars, policy, settings, target, alive, lockOwner, busy, frame, op, result, opsLeft, collectsLeft>>

\* close(force=False): a process that ignores the hangup lives on
AliveAfterClose_NotForced(s) == alive[s]

\* child.isalive() after child.close(force=True): the process is killed
AliveAfterClose(s) == FALSE

\* the way the wait of terminate ended: EOF when the process is gone, TIMEOUT
\* when it is not
WaitOutcome(t) ==
    IF alive[op[t].sid]
    THEN (IF pc[t] = "term_eof" THEN "timeout after y" ELSE "timeout")
    ELSE (IF pc[t] = "term_eof" THEN "exit after y" ELSE "exit")

\* GdbSession.terminate after the wait for the exit: EOF and TIMEOUT are
\* caught; an interrupted wait whose child a signal handler has closed
\* meanwhile ends with the error of the closed file; then
\* `finally: child.close(force=True)`
TermClose(t) ==
    LET s == op[t].sid IN
    /\ pc[t] \in {"term_wait", "term_eof"} /\ Runnable(t)
    /\ pc[t] = "term_wait" /\ s \notin closed => ~HasConfirm(outbuf[s])
    /\ alive' = [alive EXCEPT ![s] = AliveAfterClose(s)]
    /\ closed' = closed \cup {s}
    /\ busy' = [busy EXCEPT ![s] = Idle]
    /\ inq' = [inq EXCEPT ![s] = <<>>]
    /\ outbuf' = [outbuf EXCEPT ![s] = <<>>]
    /\ lockOwner' = [lockOwner EXCEPT ![s] = Unlock(s, t)]
    /\ IF s \in closed
       THEN \E exc \in {"ValueError", "OSError"} : AfterTerminate(t, exc, "closed")
       ELSE AfterTerminate(t, "none", WaitOutcome(t))
    /\ UNCHANGED <<fvars, registry, spawned, policy, settings, target, frame, opsLeft, collectsLeft>>

-----------------------------------------------------------------------------
(* Starting a session: gdb_manager.py start_session, gdb_session.py start *)

\* the ids uuid4 can draw
SessionIds == {"s1", "s2"}

\* uuid.uuid4().hex[:12]: an id no session had before
FreshId == CHOOSE id \in SessionIds \ spawned :
               \A other \in SessionIds \ spawned : KeysInOrder({id, other})[1] = id

\* the start of the gdb process as a line it runs: it prints its startup text
\* and then the first ready prompt
Banner == <<"--quiet --nx">>

\* the list with the style command first
BootstrapCommands_StyleFirst ==
    << <<"set style enabled off">>, <<"set pagination off">>, <<"set confirm off">>,
       <<"set print thread-events off">> >>

\* _SESSION_BOOTSTRAP_COMMANDS
BootstrapCommands ==
    << <<"set pagination off">>, <<"set confirm off">>, <<"set style enabled off">>,
       <<"set print thread-events off">> >>

\* a start_session that does not test the working directory
Resolves_CwdNotTested(gdbFound, cwdIsDir) == gdbFound

\* _resolve_gdb_path returns and the working directory exists and is a
\* directory
Resolves(gdbFound, cwdIsDir) == gdbFound /\ cwdIsDir

\* the arguments of start_session: what is at gdb_path and at working_dir
StartArgs(gdbFound, cwdIsDir) ==
    <<IF gdbFound THEN "gdb" ELSE "no gdb", IF cwdIsDir THEN "dir" ELSE "no dir">>

\* start_session up to pexpect.spawn: the executable and the working
\* directory are resolved, then the process is spawned under a new id
StartSession(t, gdbFound, cwdIsDir) ==
    /\ pc[t] = "idle" /\ opsLeft > 0
    /\ SessionIds \ spawned # {}
    /\ opsLeft' = opsLeft - 1
    /\ IF ~Resolves(gdbFound, cwdIsDir)
       THEN /\ result' = [result EXCEPT ![t] =
                    ToolErr("start", "FileNotFoundError",
                            IF ~gdbFound THEN "gdb executable not found"
                            ELSE "Working directory does not exist", <<>>)]
            /\ op' = [op EXCEPT ![t] = [NoOp EXCEPT !.kind = "start",
                                                    !.cmd = StartArgs(gdbFound, cwdIsDir)]]
            /\ UNCHANGED <<pc, alive, busy, spawned>>
       ELSE /\ spawned' = spawned \cup {FreshId}
            /\ alive' = [alive EXCEPT ![FreshId] = TRUE]
            /\ busy' = [busy EXCEPT ![FreshId] = [line |-> Banner, by |-> "start",
                                                  emitted |-> FALSE, idle |-> FALSE]]
            /\ op' = [op EXCEPT ![t] = [NoOp EXCEPT !.kind = "start", !.sid = FreshId,
                                                    !.cmd = StartArgs(gdbFound, cwdIsDir)]]
            /\ pc' = [pc EXCEPT ![t] = "start_wait"]
            /\ result' = [result EXCEPT ![t] = NoResult]
    /\ UNCHANGED <<fvars, registry, closed, policy, settings, target, lockOwner, inq, outbuf, frame, collectsLeft>>

\* startup_output: child.before when start builds the Session
StartupOutput(before) == Texts(before)

\* expect_exact("(gdb)") of start or of _apply_bootstrap_commands matches;
\* after the prompt of the last bootstrap command start returns the Session
\* and start_session registers it; op[t].log is the list of the prompts seen
\* and the commands sent, op[t].idx the number of commands sent
StartPrompt(t) ==
    LET s == op[t].sid
        k == FirstPrompt(outbuf[s])
        before == SubSeq(outbuf[s], 1, k - 1) IN
    /\ pc[t] = "start_wait"
    /\ HasPrompt(outbuf[s])
    /\ outbuf' = [outbuf EXCEPT ![s] = SubSeq(outbuf[s], k + 1, Len(outbuf[s]))]
    /\ op' = [op EXCEPT ![t].log = Append(op[t].log,
                    [cmd |-> <<>>, exc |-> "none", msg |-> "prompt", text |-> before])]
    /\ IF op[t].idx < Len(BootstrapCommands)
       THEN /\ pc' = [pc EXCEPT ![t] = "start_send"]
            /\ UNCHANGED <<registry, result>>
       ELSE /\ registry' = registry \cup {s}
            /\ result' = [result EXCEPT ![t] = ToolOk("start", StartupOutput(before))]
            /\ pc' = [pc EXCEPT ![t] = "idle"]
    /\ UNCHANGED <<fvars, spawned, closed, policy, settings, target, alive, lockOwner, inq, busy, frame, opsLeft, collectsLeft>>

\* _apply_bootstrap_commands: child.sendline(command)
StartSend(t) ==
    LET s == op[t].sid
        command == BootstrapCommands[op[t].idx + 1] IN
    /\ pc[t] = "start_send"
    /\ inq' = [inq EXCEPT ![s] = SendLine(s, command, "start")]
    /\ op' = [op EXCEPT ![t].idx = op[t].idx + 1,
                        ![t].log = Append(op[t].log,
                            [cmd |-> command, exc |-> "none", msg |-> "send",
                             text |-> <<>>])]
    /\ pc' = [pc EXCEPT ![t] = "start_wait"]
    /\ UNCHANGED <<fvars, rvars, policy, settings, target, alive, lockOwner, busy, outbuf, frame, result, opsLeft, collectsLeft>>

\* a failed start raises: child.close(force=True), then the error
StartFails(t, exc, msg) ==
    LET s == op[t].sid IN
    /\ alive' = [alive EXCEPT ![s] = AliveAfterClose(s)]
    /\ closed' = closed \cup {s}
    /\ busy' = [busy EXCEPT ![s] = Idle]
    /\ inq' = [inq EXCEPT ![s] = <<>>]
    /\ outbuf' = [outbuf EXCEPT ![s] = <<>>]
    /\ result' = [result EXCEPT ![t] = ToolErr("start", exc, msg, <<>>)]
    /\ pc' = [pc EXCEPT ![t] = "idle"]
    /\ UNCHANGED <<fvars, registry, spawned, policy, settings, target, lockOwner, frame, op, opsLeft, collectsLeft>>

\* except pexpect.TIMEOUT of start: no prompt within the startup timeout
StartTimeout(t) ==
    /\ pc[t] = "start_wait"
    /\ alive[op[t].sid]
    /\ ~HasPrompt(outbuf[op[t].sid])
    /\ StartFails(t, "GdbCommandTimeoutError", "Timed out waiting for gdb prompt during startup")

\* except pexpect.EOF of start: the process exited and no prompt is left
StartEOF(t) ==
    /\ pc[t] = "start_wait"
    /\ ~alive[op[t].sid]
    /\ ~HasPrompt(outbuf[op[t].sid])
    /\ StartFails(t, "GdbSessionError", "gdb exited before initial prompt")

-----------------------------------------------------------------------------
(* The service with its sessions started *)

\* command_policy.allow_prefixes as a config.json sets it
ConfiguredAllow == {<<"print">>, <<"call">>}

DefaultDeny == {<<"shell">>, <<"!">>, <<"python">>, <<"pi">>, <<"source">>, <<"define">>,
                <<"document">>}
DefaultDangerous == {<<"call">>, <<"jump">>, <<"return">>, <<"signal">>,
                     <<"set", " ", "{">>, <<"set", " ", "*">>}

NoArg == [command |-> <<>>, echo |-> FALSE, body |-> <<>>]
NoRet == [exc |-> "pending", why |-> "", text |-> <<>>]

InitService(modes, frames) ==
    /\ policy \in [mode : modes,
                   allow_prefixes : {ConfiguredAllow},
                   deny_prefixes : {DefaultDeny},
                   dangerous_prefixes : {DefaultDangerous}]
    /\ alive = [s \in Sessions |-> TRUE]
    /\ lockOwner = [s \in Sessions |-> NoOne]
    /\ inq = [s \in Sessions |-> <<>>]
    /\ busy = [s \in Sessions |-> Idle]
    /\ outbuf = [s \in Sessions |-> <<>>]
    /\ frame \in [Sessions -> frames]
    /\ pc = [t \in Callers |-> "idle"]
    /\ op = [t \in Callers |-> NoOp]
    /\ result = [t \in Callers |-> NoResult]
    /\ opsLeft = MaxOps
    /\ collectsLeft = MaxCollects
    /\ registry = Sessions
    /\ spawned = Sessions
    /\ closed = {}
    /\ settings = DefaultSettings
    /\ target = [s \in {"s1", "s2"} |-> <<>>]
    /\ arg = NoArg
    /\ ret = NoRet

\* the steps of GdbSession.execute in progress
ExecSteps ==
    \/ \E t \in Callers : ExecStart(t)
    \/ \E t \in Callers : ExecPrompt(t)
    \/ \E t \in Callers : ExecTimeout(t)
    \/ \E t \in Callers : ExecEOF(t)

\* the steps of the gdb processes
GdbSteps ==
    \/ \E s \in Sessions : GdbRead(s)
    \/ \E s \in Sessions : GdbEmit(s)
    \/ \E s \in Sessions : GdbFinish(s)
    \/ \E s \in Sessions : GdbExit(s)

\* the steps of a gdb process that asks before it quits
GdbQuitSteps ==
    \/ \E s \in Sessions : GdbAskConfirm(s)
    \/ \E s \in Sessions : GdbAnswer(s)

\* Sessions under concurrent commands and terminations
Init == InitService({"denylist"}, {0})

Next ==
    \/ \E t \in Callers, s \in Sessions : GdbCommand(t, s, CmdPrint)
    \/ \E t \in Callers, s \in Sessions : Terminate(t, s)
    \/ \E t \in Callers : TermStart(t)
    \/ \E t \in Callers : TermConfirm(t)
    \/ \E t \in Callers : TermClose(t)
    \/ ExecSteps
    \/ GdbSteps
    \/ GdbQuitSteps

Spec == Init /\ [][Next]_vars

\* the threads of the callers are scheduled, and every wait of pexpect ends:
\* by its match, by the end of the process or by its timeout (10 s in
\* execute, 5 s in terminate); nothing is assumed of the gdb process
FairSpec ==
    Spec /\ \A t \in Callers :
                WF_vars(ExecStart(t) \/ ExecPrompt(t) \/ ExecTimeout(t) \/ ExecEOF(t)
                            \/ TermStart(t) \/ TermConfirm(t) \/ TermClose(t))

\* gdb_command under every policy mode
InitCommand == InitService({"none", "allowlist", "denylist"}, {0})

NextCommand ==
    \/ \E t \in Callers, s \in Sessions, c \in CmdPool : GdbCommand(t, s, c)
    \/ ExecSteps
    \/ GdbSteps

SpecCommand == InitCommand /\ [][NextCommand]_vars

\* collect_crash_report on a session that is stopped with some frame selected
InitCollect == InitService({"denylist"}, {0, 2})

NextCollect ==
    \/ \E s \in Sessions, a \in CollectArgs : CollectCrashReport("t1", s, a)
    \/ ExecSteps
    \/ GdbSteps

SpecCollect == InitCollect /\ [][NextCollect]_vars

\* collect_crash_report of one caller while another caller selects a frame
\* on the same session with one gdb_command; the process stays alive
NextShared ==
    \/ \E s \in Sessions : CollectCrashReport("t1", s, <<20, 8, 16>>)
    \/ \E s \in Sessions : opsLeft = MaxOps /\ GdbCommand("t2", s, CmdFrameSelect)
    \/ \E t \in Callers : ExecStart(t)
    \/ \E t \in Callers : ExecPrompt(t)
    \/ \E t \in Callers : ExecTimeout(t)
    \/ \E s \in Sessions : GdbRead(s)
    \/ \E s \in Sessions : GdbFinish(s)

SpecShared == InitCollect /\ [][NextShared]_vars

\* the tools and the checked operations of the manager, called one after
\* the other on one started session; the settings are the defaults, the
\* advanced mode, or a config.json whose advanced_tools adds one tool and
\* leaves one out
InitTools ==
    /\ policy \in [mode : {"denylist"}, allow_prefixes : {ConfiguredAllow},
                   deny_prefixes : {DefaultDeny}, dangerous_prefixes : {DefaultDangerous}]
    /\ settings \in
           {DefaultSettings, [DefaultSettings EXCEPT !.mode = "advanced"],
            [DefaultSettings EXCEPT !.advanced_tools =
                 (DefaultAdvancedTools \cup {"gdb_examine"}) \ {"gdb_thread_select"}]}
    /\ target = [s \in {"s1", "s2"} |-> <<>>]
    /\ alive = [s \in Sessions |-> TRUE]
    /\ lockOwner = [s \in Sessions |-> NoOne]
    /\ inq = [s \in Sessions |-> <<>>]
    /\ busy = [s \in Sessions |-> Idle]
    /\ outbuf = [s \in Sessions |-> <<>>]
    /\ frame = [s \in Sessions |-> 0]
    /\ pc = [t \in Callers |-> "idle"]
    /\ op = [t \in Callers |-> NoOp]
    /\ result = [t \in Callers |-> NoResult]
    /\ opsLeft = MaxToolOps
    /\ collectsLeft = 0
    /\ registry = Sessions
    /\ spawned = Sessions
    /\ closed = {}
    /\ arg = NoArg
    /\ ret = NoRet

NextTools ==
    \/ \E c \in ToolCalls : ToolCall("t1", c)
    \/ ExecSteps
    \/ GdbSteps

SpecTools == InitTools /\ [][NextTools]_vars

-----------------------------------------------------------------------------
(* The registry: sessions started, used and terminated by concurrent callers *)

\* one session started by the service, the other ids unused
InitRegistry ==
    /\ policy \in [mode : {"denylist"}, allow_prefixes : {ConfiguredAllow},
                   deny_prefixes : {DefaultDeny}, dangerous_prefixes : {DefaultDangerous}]
    /\ alive = [s \in SessionIds |-> s = "s1"]
    /\ lockOwner = [s \in SessionIds |-> NoOne]
    /\ inq = [s \in SessionIds |-> <<>>]
    /\ busy = [s \in SessionIds |-> Idle]
    /\ outbuf = [s \in SessionIds |-> <<>>]
    /\ frame = [s \in SessionIds |-> 0]
    /\ pc = [t \in Callers |-> "idle"]
    /\ op = [t \in Callers |-> NoOp]
    /\ result = [t \in Callers |-> NoResult]
    /\ opsLeft = MaxRegistryOps
    /\ collectsLeft = 0
    /\ registry = {"s1"}
    /\ spawned = {"s1"}
    /\ closed = {}
    /\ settings = DefaultSettings
    /\ target = [s \in {"s1", "s2"} |-> <<>>]
    /\ arg = NoArg
    /\ ret = NoRet

NextRegistry ==
    \/ \E t \in Callers, g, c \in BOOLEAN : StartSession(t, g, c)
    \/ \E t \in Callers : StartPrompt(t)
    \/ \E t \in Callers : StartSend(t)
    \/ \E t \in Callers : StartTimeout(t)
    \/ \E t \in Callers : StartEOF(t)
    \/ \E t \in Callers, id \in SessionIds : TerminateSession(t, id)
    \/ \E t \in Callers : TerminateAll(t)
    \/ \E t \in Callers : LoopNext(t)
    \/ \E t \in Callers : Pop(t)
    \/ \E t \in Callers : TermStart(t)
    \/ \E t \in Callers : TermConfirm(t)
    \/ \E t \in Callers : TermClose(t)
    \/ \E t \in Callers, id \in SessionIds : GdbCommand(t, id, CmdPrint)
    \/ ExecSteps
    \/ \E s \in SessionIds : GdbRead(s)
    \/ \E s \in SessionIds : GdbEmit(s)
    \/ \E s \in SessionIds : GdbFinish(s)
    \/ \E s \in SessionIds : GdbExit(s)
    \/ \E s \in SessionIds : GdbAskConfirm(s)
    \/ \E s \in SessionIds : GdbAnswer(s)

SpecRegistry == InitRegistry /\ [][NextRegistry]_vars

-----------------------------------------------------------------------------
(* Process-wide shutdown: the signal handler and the atexit hook *)

\* the code that runs on the main thread: the atexit hook and two handlers
ShutdownFrames == {"main", "sig1", "sig2"}

\* SIGINT or SIGTERM arrives before the process exits: _cleanup_handler runs
\* manager.terminate_all() on the main thread, on top of whatever runs there;
\* "sig2" is the handler of a signal that arrives while "sig1" runs
Signal(h) ==
    /\ h \in {"sig1", "sig2"}
    /\ op["main"].kind # "terminate_all"
    /\ opsLeft > 1
    /\ Runnable(h)
    /\ h = "sig2" => pc["sig1"] # "idle"
    /\ TerminateAll(h)

\* the process exits: atexit runs the registered terminate_all
ProcessExit ==
    /\ op["main"].kind = "none"
    /\ Runnable("main")
    /\ TerminateAll("main")

InitShutdown ==
    /\ policy \in [mode : {"denylist"}, allow_prefixes : {ConfiguredAllow},
                   deny_prefixes : {DefaultDeny}, dangerous_prefixes : {DefaultDangerous}]
    /\ alive = [s \in SessionIds |-> TRUE]
    /\ lockOwner = [s \in SessionIds |-> NoOne]
    /\ inq = [s \in SessionIds |-> <<>>]
    /\ busy = [s \in SessionIds |-> Idle]
    /\ outbuf = [s \in SessionIds |-> <<>>]
    /\ frame = [s \in SessionIds |-> 0]
    /\ pc = [t \in ShutdownFrames |-> "idle"]
    /\ op = [t \in ShutdownFrames |-> NoOp]
    /\ result = [t \in ShutdownFrames |-> NoResult]
    /\ opsLeft = MaxSignals + 1
    /\ collectsLeft = 0
    /\ registry = SessionIds
    /\ spawned = SessionIds
    /\ closed = {}
    /\ settings = DefaultSettings
    /\ target = [s \in {"s1", "s2"} |-> <<>>]
    /\ arg = NoArg
    /\ ret = NoRet

NextShutdown ==
    \/ \E h \in ShutdownFrames : Signal(h)
    \/ ProcessExit
    \/ \E t \in ShutdownFrames : LoopNext(t)
    \/ \E t \in ShutdownFrames : Pop(t)
    \/ \E t \in ShutdownFrames : TermStart(t)
    \/ \E t \in ShutdownFrames : TermConfirm(t)
    \/ \E t \in ShutdownFrames : TermClose(t)
    \/ \E s \in SessionIds : GdbRead(s)
    \/ \E s \in SessionIds : GdbFinish(s)
    \/ \E s \in SessionIds : GdbExit(s)
    \/ \E s \in SessionIds : GdbAskConfirm(s)
    \/ \E s \in SessionIds : GdbAnswer(s)

SpecShutdown == InitShutdown /\ [][NextShutdown]_vars

\* a signal arrives while the main thread, which runs the tool functions of
\* the server, is inside a gdb_command
NextInterrupt ==
    \/ \E s \in SessionIds : GdbCommand("main", s, CmdPrint)
    \/ ExecStart("main")
    \/ ExecPrompt("main")
    \/ ExecTimeout("main")
    \/ ExecEOF("main")
    \/ Signal("sig1")
    \/ LoopNext("sig1")
    \/ Pop("sig1")
    \/ TermStart("sig1")
    \/ TermConfirm("sig1")
    \/ TermClose("sig1")
    \/ \E s \in SessionIds : GdbRead(s)
    \/ \E s \in SessionIds : GdbEmit(s)
    \/ \E s \in SessionIds : GdbFinish(s)
    \/ \E s \in SessionIds : GdbExit(s)
    \/ \E s \in SessionIds : GdbAskConfirm(s)
    \/ \E s \in SessionIds : GdbAnswer(s)

SpecInterrupt == InitShutdown /\ [][NextInterrupt]_vars

-----------------------------------------------------------------------------
(* CommandPolicy.validate applied to every command under every policy *)

PolicyChars == {"a", "A", "b", " ", "\n"}
PrefixPool == {<<"a">>, <<"a", "b">>}
PolicyModes == {"none", "allowlist", "denylist", "other"}

svars == <<alive, lockOwner, inq, busy, outbuf, frame, pc, op, result, opsLeft,
           collectsLeft>>

InitPolicy ==
    /\ policy \in [mode : PolicyModes,
                   allow_prefixes : SUBSET PrefixPool,
                   deny_prefixes : SUBSET PrefixPool,
                   dangerous_prefixes : SUBSET PrefixPool]
    /\ arg \in [command : StringsUpTo(PolicyChars, MaxCmdLen), echo : {FALSE},
                body : {<<>>}]
    /\ ret = NoRet
    /\ alive = [s \in Sessions |-> TRUE]
    /\ lockOwner = [s \in Sessions |-> NoOne]
    /\ inq = [s \in Sessions |-> <<>>]
    /\ busy = [s \in Sessions |-> Idle]
    /\ outbuf = [s \in Sessions |-> <<>>]
    /\ frame = [s \in Sessions |-> 0]
    /\ pc = [t \in Callers |-> "idle"]
    /\ op = [t \in Callers |-> NoOp]
    /\ result = [t \in Callers |-> NoResult]
    /\ opsLeft = 0
    /\ collectsLeft = 0
    /\ registry = Sessions
    /\ spawned = Sessions
    /\ closed = {}
    /\ settings = DefaultSettings
    /\ target = [s \in {"s1", "s2"} |-> <<>>]

\* settings.validate_command(command)
ValidateCommand ==
    /\ ret = NoRet
    /\ ret' = [exc |-> Validate(policy, arg.command).exc,
               why |-> Validate(policy, arg.command).why, text |-> <<>>]
    /\ UNCHANGED <<policy, settings, target, arg, svars, rvars>>

NextPolicy == ValidateCommand

SpecPolicy == InitPolicy /\ [][NextPolicy]_vars

-----------------------------------------------------------------------------
(* GdbSession.execute applied to what the process printed before the prompt *)

OutputChars == {"a", " ", "\n", "\r", ESC, "[", "m", "A"}
OutputCommands == {<<"a">>, <<"a", " ", "a">>, <<" ", "a">>}

\* the pty echo of a command line
Echo(command) == command \o <<"\r", "\n">>

\* child.before: the echo, when the terminal echoes, then the output
Before(a) == (IF a.echo THEN Echo(a.command) ELSE <<>>) \o a.body

InitOutput ==
    /\ policy \in [mode : {"denylist"}, allow_prefixes : {ConfiguredAllow},
                   deny_prefixes : {DefaultDeny}, dangerous_prefixes : {DefaultDangerous}]
    /\ arg \in [command : OutputCommands, echo : BOOLEAN,
                body : StringsUpTo(OutputChars, MaxRawLen)]
    /\ ret = NoRet
    /\ alive = [s \in Sessions |-> TRUE]
    /\ lockOwner = [s \in Sessions |-> NoOne]
    /\ inq = [s \in Sessions |-> <<>>]
    /\ busy = [s \in Sessions |-> Idle]
    /\ outbuf = [s \in Sessions |-> <<>>]
    /\ frame = [s \in Sessions |-> 0]
    /\ pc = [t \in Callers |-> "idle"]
    /\ op = [t \in Callers |-> NoOp]
    /\ result = [t \in Callers |-> NoResult]
    /\ opsLeft = 0
    /\ collectsLeft = 0
    /\ registry = Sessions
    /\ spawned = Sessions
    /\ closed = {}
    /\ settings = DefaultSettings
    /\ target = [s \in {"s1", "s2"} |-> <<>>]

\* GdbSession.execute after expect_exact matched the prompt
ExecuteReturn ==
    /\ ret = NoRet
    /\ ret' = [exc |-> "none", why |-> "", output |-> NormalizeOutput(Before(arg)),
               text |-> ExecuteOutput(arg.command, Before(arg))]
    /\ UNCHANGED <<policy, settings, target, arg, svars, rvars>>

NextOutput == ExecuteReturn

SpecOutput == InitOutput /\ [][NextOutput]_vars

-----------------------------------------------------------------------------
(* parsing.py applied to the lines of a command's output *)

\* _collect_mi_records: the lines that _MI_RECORD_RE matches, parsed by
\* parse_response, without those it returns as plain output.  A line is
\* [mark, payload]: mark is the character that opens a GDB/MI record, "~?"
\* for a line that opens like a stream record and is not one, "" for any
\* other text (a blank line and "(gdb)" included)
CollectMiRecords(lines) ==
    LET type(m) == CASE m = "~" -> "console" [] m = "&" -> "log" [] m = "@" -> "target"
                     [] m = "^" -> "result" [] m = "=" -> "notify" [] OTHER -> "output"
        parse(l) == [type |-> type(l.mark),
                     message |-> IF l.mark \in {"^", "="} THEN "done" ELSE "None",
                     payload |-> l.payload]
        matched == SelectSeq(lines, LAMBDA l : l.mark \in {"~", "&", "@", "^", "=", "~?"})
        parsed == [i \in 1..Len(matched) |-> parse(matched[i])]
    IN SelectSeq(parsed, LAMBDA r : r.type # "output")

\* parse_mi_records
ParseMiRecords(lines) ==
    SelectSeq(CollectMiRecords(lines),
              LAMBDA r : r.type \in {"result", "notify", "exec", "status"})

\* a merge that does not compare the types
ParseMiStreams_TypeNotCompared(lines) ==
    LET streams == SelectSeq(CollectMiRecords(lines),
                             LAMBDA r : r.type \in {"console", "log", "target"})
        RECURSIVE Merge(_, _)
        Merge(rest, merged) ==
            IF rest = <<>> THEN merged
            ELSE IF merged = <<>> THEN Merge(Tail(rest), <<Head(rest)>>)
            ELSE Merge(Tail(rest),
                       [merged EXCEPT ![Len(merged)].payload = @ \o Head(rest).payload])
    IN Merge(streams, <<>>)

\* parse_mi_streams: the payload of a stream record is always a str
ParseMiStreams(lines) ==
    LET streams == SelectSeq(CollectMiRecords(lines),
                             LAMBDA r : r.type \in {"console", "log", "target"})
        RECURSIVE Merge(_, _)
        Merge(rest, merged) ==
            IF rest = <<>> THEN merged
            ELSE IF merged = <<>> THEN Merge(Tail(rest), <<Head(rest)>>)
            ELSE IF Head(rest).type # merged[Len(merged)].type
                    \/ Head(rest).message # merged[Len(merged)].message
            THEN Merge(Tail(rest), Append(merged, Head(rest)))
            ELSE Merge(Tail(rest),
                       [merged EXCEPT ![Len(merged)].payload = @ \o Head(rest).payload])
    IN Merge(streams, <<>>)

\* a parser that makes a record of every line after the first numbered one
ParseBreakpoints_EveryLineARecord(lines) ==
    LET text(l) == RStrip(l)
        kept == SelectSeq([i \in 1..Len(lines) |-> text(lines[i])], LAMBDA l : l # <<>>)
        isHead(l) == LET b == LStrip(l) IN
                     Len(b) >= 2 /\ b[1] \in {"1", "2", "3"} /\ IsSpace(b[2])
        first == {i \in 1..Len(kept) : isHead(kept[i])}
        from == IF first = {} THEN Len(kept) + 1
                ELSE CHOOSE i \in first : \A j \in first : i <= j
    IN [k \in 1..(Len(kept) - from + 1) |->
           LET l == Strip(kept[from + k - 1])
               at == SelectSeq(l, LAMBDA a : a \in {"at f:7", "at f:9"}) IN
           [number |-> IF isHead(kept[from + k - 1]) THEN ToInt(l[1]) ELSE 0,
            raw |-> l,
            at |-> IF at = <<>> THEN "" ELSE at[1]]]

\* parse_breakpoints: a line is a sequence of atoms; "at f:7" stands for a
\* location that _SOURCE_AT_RE finds, "1", "2", "3" are numbers, "1.1" and
\* "w" are other words.  A record is [number, raw, at], `at` being "" when
\* the item has no file and line
ParseBreakpoints(lines) ==
    LET text(l) == RStrip(l)
        kept == SelectSeq([i \in 1..Len(lines) |-> text(lines[i])], LAMBDA l : l # <<>>)
        isHead(l) == LET b == LStrip(l) IN
                     Len(b) >= 2 /\ b[1] \in {"1", "2", "3"} /\ IsSpace(b[2])
        RECURSIVE Group(_, _)
        Group(rest, grouped) ==
            IF rest = <<>> THEN grouped
            ELSE IF isHead(Head(rest))
            THEN Group(Tail(rest), Append(grouped, <<Head(rest)>>))
            ELSE IF grouped = <<>> THEN Group(Tail(rest), grouped)
            ELSE Group(Tail(rest),
                       [grouped EXCEPT ![Len(grouped)] = Append(@, Head(rest))])
        RECURSIVE Join(_)
        Join(parts) == IF parts = <<>> THEN <<>>
                       ELSE IF Len(parts) = 1 THEN Strip(parts[1])
                       ELSE Strip(parts[1]) \o <<" ">> \o Join(Tail(parts))
        item(g) == LET combined == Join(g)
                       at == SelectSeq(combined, LAMBDA a : a \in {"at f:7", "at f:9"}) IN
                   [number |-> ToInt(LStrip(g[1])[1]),
                    raw |-> combined,
                    at |-> IF at = <<>> THEN "" ELSE at[1]]
        groups == Group(kept, <<>>)
    IN [k \in 1..Len(groups) |-> item(groups[k])]

\* the outputs given to the parsers: up to MaxLines lines of GDB/MI records
\* and other text, or of the table of `info breakpoints`
InitParse ==
    /\ arg \in [fn : {"parse_mi"},
                lines : StringsUpTo(
                    [mark : {"~", "&"}, payload : {<<"a">>, <<"b">>}]
                        \cup [mark : {"@", "^", "=", "~?", ""}, payload : {<<"a">>}],
                    MaxLines)]
           \cup [fn : {"parse_breakpoints"},
                 lines : StringsUpTo(
                     {<<"Num", " ", "w">>, <<"No breakpoints or watchpoints.">>,
                      <<"1", " ", "w", " ", "at f:7">>, <<"2", " ", "w">>,
                      <<" ", "3", " ", "w", " ", "at f:7", " ">>,
                      <<" ", "at f:9">>, <<" ", "w">>, <<"1.1", " ", "at f:9">>,
                      <<" ">>},
                     MaxLines)]
    /\ ret = NoRet
    /\ policy \in [mode : {"denylist"}, allow_prefixes : {ConfiguredAllow},
                   deny_prefixes : {DefaultDeny}, dangerous_prefixes : {DefaultDangerous}]
    /\ alive = [s \in Sessions |-> TRUE]
    /\ lockOwner = [s \in Sessions |-> NoOne]
    /\ inq = [s \in Sessions |-> <<>>]
    /\ busy = [s \in Sessions |-> Idle]
    /\ outbuf = [s \in Sessions |-> <<>>]
    /\ frame = [s \in Sessions |-> 0]
    /\ pc = [t \in Callers |-> "idle"]
    /\ op = [t \in Callers |-> NoOp]
    /\ result = [t \in Callers |-> NoResult]
    /\ opsLeft = 0
    /\ collectsLeft = 0
    /\ registry = Sessions
    /\ spawned = Sessions
    /\ closed = {}
    /\ settings = DefaultSettings
    /\ target = [s \in {"s1", "s2"} |-> <<>>]

\* server.gdb_command parses the output into miRecords and miStreams,
\* server.gdb_list_breakpoints into breakpoints
Parse ==
    /\ ret = NoRet
    /\ \/ /\ arg.fn = "parse_mi"
          /\ ret' = [exc |-> "none", records |-> ParseMiRecords(arg.lines),
                     streams |-> ParseMiStreams(arg.lines)]
       \/ /\ arg.fn = "parse_breakpoints"
          /\ ret' = [exc |-> "none", breakpoints |-> ParseBreakpoints(arg.lines)]
    /\ UNCHANGED <<policy, settings, target, arg, svars, rvars>>

SpecParse == InitParse /\ [][Parse]_vars

-----------------------------------------------------------------------------
(* Properties *)

\* the callers whose command is in flight on Session s: sent, outcome pending
InFlight(s) == {t \in Callers : pc[t] = "wait" /\ op[t].sid = s}

\* C1: on one Session at most one command is in flight at any time, and the
\* caller whose command is in flight holds the Session's lock, so no other
\* caller sends before that caller has its outcome.
C1_OneInFlight ==
    \A s \in Sessions :
        /\ Cardinality(InFlight(s)) <= 1
        /\ \A t \in InFlight(s) : lockOwner[s] = t

\* two execute calls on the same Session at once: one in flight, one queued
C1_Witness ==
    \E t1, t2 \in Callers :
        /\ t1 # t2 /\ op[t1].sid = op[t2].sid
        /\ pc[t1] = "wait" /\ pc[t2] = "exec"

\* collect_crash_report has returned to caller t
CollectReturned(t) ==
    op[t].kind = "collect" /\ pc[t] = "idle" /\ result[t].tool = "collect"

\* C2: when collect_crash_report is called with frame N > 0 selected, the
\* last command it sends is `frame N` and frame N is selected when it returns.
C2_FrameRestored ==
    \A t \in Callers :
        CollectReturned(t) /\ op[t].frame0 > 0 =>
            /\ op[t].log[Len(op[t].log)].cmd = <<"frame", " ", ToStr(op[t].frame0)>>
            /\ alive[op[t].sid] => frame[op[t].sid] = op[t].frame0

C4_SnapshotFromInnermost ==
    \A t \in Callers :
        op[t].kind = "collect" /\ Len(op[t].log) >= 1 =>
            /\ op[t].log[1].cmd = <<"frame">>
            /\ op[t].frame0 # 0 /\ Len(op[t].log) >= 2 =>
                    op[t].log[2].cmd = <<"frame", " ", "0">>
            /\ CollectReturned(t) /\ ~op[t].report[2].err =>
                    \A i \in 1..Len(op[t].report[2].text) :
                        op[t].report[2].text[i].frame = 0

\* an execute of t ends in this step
ExecuteEnds(t) == pc[t] = "wait" /\ pc'[t] # "wait"

\* C5: an execute whose prompt does not arrive in time raises the timeout
\* error with the partial output read so far; the process keeps running, the
\* Session stays alive with its lock free, so the next execute is accepted.
C5_TimeoutKeepsSession ==
    [][\A t \in Callers :
        ExecuteEnds(t) /\ alive[op[t].sid] /\ ~HasPrompt(outbuf[op[t].sid]) =>
            /\ result'[t].ok = FALSE
            /\ result'[t].error_type = "GdbCommandTimeoutError"
            /\ result'[t].text = outbuf[op[t].sid]
            /\ alive'[op[t].sid]
            /\ lockOwner'[op[t].sid] = NoOne
            /\ pc'[t] = "idle"]_vars

\* after a timeout with partial output another execute was accepted and sent
C5_Witness ==
    \E t1, t2 \in Callers :
        /\ t1 # t2 /\ op[t1].sid = op[t2].sid
        /\ pc[t1] = "idle" /\ result[t1].error_type = "GdbCommandTimeoutError"
        /\ result[t1].text # <<>>
        /\ pc[t2] = "wait" /\ alive[op[t2].sid]

\* C6: when the process exits after the command was sent and no prompt is
\* left to read, execute raises GdbSessionError itself, not the timeout
\* error, with the partial output, and the Session is dead.
C6_ExitRaisesSessionError ==
    [][\A t \in Callers :
        ExecuteEnds(t) /\ ~alive[op[t].sid] /\ ~HasPrompt(outbuf[op[t].sid]) =>
            /\ result'[t].ok = FALSE
            /\ result'[t].error_type = "GdbSessionError"
            /\ result'[t].text = outbuf[op[t].sid]
            /\ ~alive'[op[t].sid]
            /\ lockOwner'[op[t].sid] = NoOne]_vars

\* an execute ended by the exit of the process, with partial output
C6_Witness ==
    \E t \in Callers :
        /\ pc[t] = "idle" /\ result[t].tool = "command"
        /\ result[t].error_type = "GdbSessionError" /\ result[t].msg = "terminated"
        /\ result[t].text # <<>>
        /\ ~alive[op[t].sid]

\* C7: dead is absorbing: a dead Session stays dead, nothing is written to
\* its process, an execute on it fails at once with GdbSessionError, and a
\* terminate returns without changing the Session.
C7_DeadIsAbsorbing ==
    [][\A s \in Sessions :
        ~alive[s] =>
            /\ ~alive'[s]
            /\ inq'[s] = inq[s]
            /\ \A t \in Callers :
                pc[t] = "exec" /\ op[t].sid = s /\ pc'[t] # "exec" =>
                    /\ pc'[t] = "idle"
                    /\ result'[t].ok = FALSE
                    /\ result'[t].error_type = "GdbSessionError"
                    /\ result'[t].msg = "not alive"
                    /\ lockOwner'[s] = lockOwner[s]
            /\ \A t \in Callers :
                pc[t] = "term" /\ op[t].sid = s /\ pc'[t] # "term" =>
                    /\ pc'[t] = "idle"
                    /\ lockOwner'[s] = lockOwner[s]
                    /\ outbuf'[s] = outbuf[s]
                    /\ busy'[s] = busy[s]]_vars

\* an execute on a dead Session has failed
C7_Witness ==
    \E t \in Callers :
        /\ pc[t] = "idle" /\ result[t].tool = "command"
        /\ result[t].error_type = "GdbSessionError" /\ result[t].msg = "not alive"
        /\ ~alive[op[t].sid]

\* C8: execute returns exactly the normalized, trimmed text the process
\* printed between the echo of the command, if there is one, and the prompt.
C8_ExecuteReturnsOutput ==
    ret # NoRet => ret.text = Strip(NormalizeOutput(arg.body))

\* the command starts with a dangerous prefix after trimming and lower-casing
IsDangerous(pol, command) == AnyPrefix(Lower(Strip(command)), pol.dangerous_prefixes)

\* C9: validate rejects every command that starts with a dangerous prefix,
\* in every mode and for every content of the allow and deny lists.
C9_DangerousAlwaysRejected ==
    ret # NoRet /\ IsDangerous(policy, arg.command) => ret.exc # "none"

\* a dangerous command that an allow prefix matches, rejected in allowlist mode
C9_Witness ==
    /\ ret.exc = "PermissionError" /\ ret.why = "dangerous"
    /\ policy.mode = "allowlist"
    /\ AnyPrefix(Lower(Strip(arg.command)), policy.allow_prefixes)
    /\ Lower(Strip(arg.command)) # arg.command

\* the policy forbids the line: a dangerous prefix, or a deny prefix in
\* denylist mode
Forbidden(pol, line) ==
    \/ IsDangerous(pol, line)
    \/ pol.mode = "denylist" /\ AnyPrefix(Lower(Strip(line)), pol.deny_prefixes)

\* the lines of gdb_command the process of Session s has received
ReceivedFromCommand(s) ==
    {inq[s][i].line : i \in {j \in 1..Len(inq[s]) : inq[s][j].by = "command"}}
        \cup (IF ~busy[s].idle /\ busy[s].by = "command" THEN {busy[s].line} ELSE {})

\* C10: through gdb_command the process never receives a command line the
\* policy forbids; a forbidden command sends nothing and returns a
\* permission failure.
C10_NoForbiddenLine ==
    [][/\ \A s \in Sessions : \A line \in ReceivedFromCommand(s)' :
            ~Forbidden(policy, line)
       /\ \A t \in Callers :
            pc[t] = "idle" /\ opsLeft' < opsLeft /\ op'[t] # op[t]
                /\ Forbidden(policy, op'[t].cmd) =>
                    /\ pc'[t] = "idle"
                    /\ result'[t].ok = FALSE
                    /\ result'[t].error_type = "PermissionError"
                    /\ inq' = inq]_vars

\* C11: for a command that starts with no dangerous prefix, validate accepts
\* in allowlist mode exactly when the trimmed, lower-cased command starts with
\* an allow prefix (never with an empty allow list), in denylist mode exactly
\* when it starts with no deny prefix, and always in mode none; an empty or
\* whitespace-only command raises ValueError in every mode.
C11_ModeDecides ==
    ret # NoRet =>
        LET normalized == Lower(Strip(arg.command)) IN
        /\ normalized = <<>> => ret.exc = "ValueError"
        /\ normalized # <<>> /\ ~IsDangerous(policy, arg.command) =>
            /\ policy.mode = "allowlist" =>
                (ret.exc = "none") = AnyPrefix(normalized, policy.allow_prefixes)
            /\ policy.mode = "allowlist" /\ policy.allow_prefixes = {} =>
                ret.exc = "PermissionError"
            /\ policy.mode = "denylist" =>
                (ret.exc = "none") = ~AnyPrefix(normalized, policy.deny_prefixes)
            /\ policy.mode = "denylist" /\ ret.exc # "none" =>
                ret.exc = "PermissionError"
            /\ policy.mode = "none" => ret.exc = "none"

\* a command with no dangerous prefix that a deny prefix matches after
\* trimming and lower-casing, rejected in denylist mode
C11_Witness ==
    /\ ret.exc = "PermissionError" /\ ret.why = "denylist"
    /\ policy.mode = "denylist"
    /\ ~IsDangerous(policy, arg.command)
    /\ policy.allow_prefixes # {}
    /\ Lower(Strip(arg.command)) # arg.command

\* the terminate of t is at one of its steps
InTerminate(t) == pc[t] \in {"term", "term_wait", "term_eof"}

Calls(t) == pc[t] = "idle" /\ opsLeft' < opsLeft
                /\ <<op'[t], result'[t], pc'[t]>> # <<op[t], result[t], pc[t]>>
Returns(t) == pc[t] # "idle" /\ pc'[t] = "idle"

\* C12: terminate_session(id) on a registered id returns with the process
\* dead and id out of the registry, and id stays out, so every later command
\* or terminate_session on id fails with SessionNotFoundError; on an id that
\* is not registered both fail with SessionNotFoundError and change neither
\* the registry nor any Session.
C12_TerminateSessionRemoves ==
    [][/\ \A t \in Callers :
            op[t].kind = "terminate_session" /\ Returns(t) =>
                /\ result'[t].ok
                /\ ~alive'[op[t].sid]
                /\ op[t].sid \notin registry'
       /\ \A id \in SessionIds :
            id \in closed /\ id \notin registry => id \notin registry'
       /\ \A t \in Callers :
            Calls(t) /\ op'[t].kind \in {"command", "terminate_session"}
                /\ op'[t].sid \notin registry =>
                    /\ pc'[t] = "idle"
                    /\ result'[t].ok = FALSE
                    /\ result'[t].error_type = "SessionNotFoundError"
                    /\ UNCHANGED <<registry, spawned, closed, alive, lockOwner, inq,
                                   busy, outbuf, frame>>]_vars

\* one caller's terminate_session removed the id, the other caller's command
\* on the same id then failed with SessionNotFoundError
C12_Witness ==
    \E t1, t2 \in Callers :
        /\ t1 # t2 /\ op[t1].sid = op[t2].sid
        /\ pc[t1] = "idle" /\ result[t1].tool = "terminate_session" /\ result[t1].ok
        /\ op[t1].log # <<>> /\ op[t1].log[1].msg # "not alive"
        /\ pc[t2] = "idle" /\ result[t2].tool = "command"
        /\ result[t2].error_type = "SessionNotFoundError"

\* a start of Session id is in progress; a terminate_session on it has run
\* session.terminate() and its pop is next
Starting(id) == \E t \in Callers : op[t].kind = "start" /\ pc[t] # "idle" /\ op[t].sid = id
PopPending(id) == \E t \in Callers : pc[t] = "pop" /\ op[t].sid = id

\* the registry holds the Sessions start_session created and no
\* terminate_session removed: an id enters when its start ends, leaves by
\* the pop of a terminate_session, and only started ids are in it
HoldsCreated ==
    /\ \A id \in registry' : id \in spawned' /\ ~Starting(id)'
    /\ \A id \in registry' \ registry : Starting(id)
    /\ \A id \in registry \ registry' : PopPending(id)

\* a terminate_session on a registered id leaves the id unregistered when it
\* returns
UnregisteredAtReturn ==
    \A t \in Callers :
        op[t].kind = "terminate_session" /\ Returns(t) /\ op[t].sid \in registry =>
            op[t].sid \notin registry'

\* C13 as claimed: the registry holds exactly the Sessions start_session
\* created that are not terminated, terminate_session leaves its id
\* unregistered when it ends, and no registered Session has a dead process.
C13_RegisteredAreLive ==
    [][/\ HoldsCreated
       /\ UnregisteredAtReturn
       /\ \A id \in registry' : alive'[id]]_vars

\* C13 amended: a Session enters the registry at the end of its successful
\* start and leaves it only by the pop of a terminate_session, which follows
\* every session.terminate() whatever way the process stopped; a registered
\* Session whose child was closed has that pop pending; the process of a
\* registered Session may have exited on its own.
C13_RemovedByTerminateOnly ==
    [][/\ HoldsCreated
       /\ UnregisteredAtReturn
       /\ \A id \in registry' : id \in closed' => PopPending(id)']_vars

\* a Session that start_session created is registered with its process
\* exited, and a terminate_session that hit the timeout has removed the other
C13_Witness ==
    /\ "s2" \in registry /\ ~alive["s2"] /\ "s2" \notin closed
    /\ \E t \in Callers :
        /\ pc[t] = "idle" /\ result[t].tool = "terminate_session" /\ result[t].ok
        /\ op[t].sid = "s1" /\ "s1" \notin registry
        /\ op[t].log[1].msg = "timeout"

\* terminate_all returns to caller t in this step
TerminateAllReturns(t) == op[t].kind = "terminate_all" /\ Returns(t)

\* every id of the snapshot was tried, in order, whatever the outcomes
TriedAll(t) ==
    /\ Len(op'[t].log) = Len(op[t].ids)
    /\ \A i \in 1..Len(op[t].ids) : op'[t].log[i].cmd = <<op[t].ids[i]>>

\* the snapshot of terminate_all is the registry at the call
SnapshotAtCall ==
    \A t \in Callers :
        Calls(t) /\ op'[t].kind = "terminate_all" =>
            {op'[t].ids[i] : i \in 1..Len(op'[t].ids)} = registry

\* C14 as claimed: terminate_all tries every Session registered when it
\* starts, a failed termination neither aborts the loop nor is raised, and
\* when no termination fails the registry is empty afterwards.
C14_RegistryEmptyAfterwards ==
    [][/\ SnapshotAtCall
       /\ \A t \in Callers :
            TerminateAllReturns(t) =>
                /\ result'[t].ok
                /\ TriedAll(t)
                /\ (\A i \in 1..Len(op'[t].log) : op'[t].log[i].exc = "none")
                        => registry' = {}]_vars

\* C14 amended: terminate_all tries every Session registered when it starts,
\* a failed termination neither aborts the loop nor is raised, and when no
\* termination fails no Session of its snapshot is registered afterwards.
C14_BestEffortLoop ==
    [][/\ SnapshotAtCall
       /\ \A t \in Callers :
            TerminateAllReturns(t) =>
                /\ result'[t].ok
                /\ TriedAll(t)
                /\ (\A i \in 1..Len(op'[t].log) : op'[t].log[i].exc = "none")
                        => \A i \in 1..Len(op[t].ids) : op[t].ids[i] \notin registry']_vars

\* terminate_all returned after the termination of its first Session failed
\* and the second Session was terminated and removed
C14_Witness ==
    \E t \in Callers :
        /\ pc[t] = "idle" /\ result[t].tool = "terminate_all"
        /\ Len(op[t].log) = 2
        /\ op[t].log[1].exc = "SessionNotFoundError"
        /\ op[t].log[2].exc = "none" /\ op[t].log[2].msg # "not alive"
        /\ op[t].ids[2] \notin registry /\ ~alive[op[t].ids[2]]

\* the `quit` lines the process of Session s has been sent and has not
\* finished with
QuitsReceived(s) ==
    Cardinality({i \in 1..Len(inq[s]) : inq[s][i].line = <<"quit">>})
        + (IF ~busy[s].idle /\ busy[s].line = <<"quit">> THEN 1 ELSE 0)

\* C15: over any sequence of signals followed by the exit of the process,
\* each Session's process is sent `quit` at most once, and when the atexit
\* hook has returned every Session is dead and unregistered.
C15_ShutdownOnce ==
    /\ \A s \in SessionIds : QuitsReceived(s) <= 1
    /\ pc["main"] = "idle" /\ result["main"].tool = "terminate_all" =>
            \A s \in SessionIds : ~alive[s] /\ s \notin registry

\* C17: a start_session whose executable cannot be resolved or whose working
\* directory is missing or not a directory fails with FileNotFoundError,
\* spawns no process and leaves the registry and every Session unchanged.
C17_NotFoundBeforeSpawn ==
    [][\A t \in Callers :
        Calls(t) /\ op'[t].kind = "start"
            /\ (op'[t].cmd[1] = "no gdb" \/ op'[t].cmd[2] = "no dir") =>
                /\ pc'[t] = "idle"
                /\ result'[t].ok = FALSE
                /\ result'[t].error_type = "FileNotFoundError"
                /\ UNCHANGED <<registry, spawned, closed, alive, lockOwner, inq, busy,
                               outbuf>>]_vars

\* a start_session with a resolvable executable and a missing working
\* directory has failed
C17_Witness ==
    \E t \in Callers :
        /\ pc[t] = "idle" /\ result[t].tool = "start"
        /\ op[t].cmd = <<"gdb", "no dir">>
        /\ result[t].error_type = "FileNotFoundError"
        /\ result[t].msg = "Working directory does not exist"
        /\ spawned = {"s1"}

\* C18: a start ends in failure exactly when no ready prompt is there to
\* be seen: with GdbCommandTimeoutError while the process lives, with
\* GdbSessionError when it has exited; the spawned process is then closed
\* and dead, it is not registered, the registry is unchanged and nothing of
\* any other Session changes.
C18_StartupFailureIsLocal ==
    [][\A t \in Callers :
        Returns(t) /\ op[t].kind = "start" =>
            LET s == op[t].sid IN
            /\ result'[t].ok <=> HasPrompt(outbuf[s])
            /\ ~result'[t].ok =>
                /\ result'[t].tool = "start"
                /\ result'[t].error_type =
                       IF alive[s] THEN "GdbCommandTimeoutError" ELSE "GdbSessionError"
                /\ ~alive'[s] /\ s \in closed'
                /\ s \notin registry' /\ registry' = registry
                /\ \A o \in SessionIds \ {s} :
                       /\ alive'[o] = alive[o] /\ lockOwner'[o] = lockOwner[o]
                       /\ inq'[o] = inq[o] /\ busy'[o] = busy[o]
                       /\ outbuf'[o] = outbuf[o] /\ frame'[o] = frame[o]]_vars

\* a start has timed out after a bootstrap command, its process is closed,
\* and the Session registered before answers another caller's command
C18_Witness ==
    \E t, u \in Callers :
        /\ t # u
        /\ pc[t] = "idle" /\ op[t].kind = "start" /\ op[t].idx >= 1
        /\ result[t].tool = "start"
        /\ result[t].error_type = "GdbCommandTimeoutError"
        /\ op[t].sid \in closed /\ ~alive[op[t].sid]
        /\ registry = {"s1"} /\ alive["s1"]
        /\ result[u].tool = "command" /\ result[u].ok

\* C19: during a start the caller sees a ready prompt before each bootstrap
\* command and sends the commands in the order pagination off, confirm off,
\* style off, thread-events off; the process never holds more than one
\* unanswered line and gets it only while it is at its prompt; the Session
\* is registered, and receives a line of another origin, only after the
\* fifth prompt.
C19_BootstrapInOrder ==
    \A t \in Callers :
        op[t].kind = "start" /\ op[t].cmd = <<"gdb", "dir">> =>
            LET log == op[t].log
                s == op[t].sid
                C19_FixedOrder ==
                    <<"set pagination off", "set confirm off", "set style enabled off",
                      "set print thread-events off">> IN
            /\ Len(log) <= 9
            /\ \A i \in 1..Len(log) :
                   IF i % 2 = 1
                   THEN log[i].msg = "prompt"
                   ELSE log[i].msg = "send" /\ log[i].cmd = <<C19_FixedOrder[i \div 2]>>
            /\ pc[t] = "start_wait" => Len(log) % 2 = 0
            /\ pc[t] = "start_send" => Len(log) % 2 = 1
            /\ pc[t] # "idle" =>
                   /\ s \notin registry
                   /\ Len(inq[s]) <= 1
                   /\ inq[s] # <<>> => busy[s] = Idle
                   /\ \A i \in 1..Len(inq[s]) : inq[s][i].by = "start"
                   /\ busy[s] # Idle => busy[s].by = "start"
            /\ pc[t] = "idle" /\ result[t].tool = "start" /\ result[t].ok => Len(log) = 9

\* a start has sent the four commands, seen five prompts and registered
\* its Session, which then answered another caller's command
C19_Witness ==
    \E t, u \in Callers :
        /\ pc[t] = "idle" /\ op[t].kind = "start"
        /\ result[t].tool = "start" /\ result[t].ok
        /\ Len(op[t].log) = 9 /\ op[t].idx = 4
        /\ op[t].sid \in registry
        /\ pc[u] = "idle" /\ op[u].kind = "command" /\ op[u].sid = op[t].sid
        /\ result[u].tool = "command" /\ result[u].ok

\* C20: the output a successful start_session returns is the normalized
\* text the process printed before its first ready prompt.
C20_OutputIsBanner ==
    \A t \in Callers :
        /\ pc[t] = "idle" /\ op[t].kind = "start"
        /\ result[t].tool = "start" /\ result[t].ok
        => result[t].text = Texts(op[t].log[1].text)

\* C21: an execute or a terminate whose own Session has its lock free can
\* take its next step whatever the other Sessions are doing, and a line
\* reaches the process of a Session only from a caller whose operation is
\* on that Session.
C21_SessionsIndependent ==
    /\ [](\A t \in Callers :
            /\ pc[t] = "exec" /\ lockOwner[op[t].sid] = NoOne => ENABLED ExecStart(t)
            /\ pc[t] = "term" /\ lockOwner[op[t].sid] = NoOne => ENABLED TermStart(t))
    /\ [][\A s \in SessionIds :
            Len(inq'[s]) > Len(inq[s]) =>
                \E t \in Callers : pc'[t] # pc[t] /\ op[t].sid = s]_vars

\* two callers are inside execute at the same time, each on its own Session
C21_Witness ==
    /\ pc["t1"] = "wait" /\ pc["t2"] = "wait"
    /\ op["t1"].sid # op["t2"].sid
    /\ lockOwner[op["t1"].sid] = "t1" /\ lockOwner[op["t2"].sid] = "t2"

\* C22: a tool function whose operation fails with FileNotFoundError,
\* ValueError, GdbCommandTimeoutError, GdbSessionError, SessionNotFoundError
\* or PermissionError returns ok = false with the kind of the error and
\* raises nothing; the failure leaves the registry as it was, the caller
\* holds no lock, and the next call can be made.
C22_FailureIsStructured ==
    /\ [][\A t \in Callers :
            /\ pc'[t] = "idle" /\ op'[t].kind = "tool" /\ result'[t] # result[t]
            /\ op'[t].call.name \in ServerTools
            /\ ~result'[t].ok
            => /\ ~result'[t].raised
               /\ result'[t].tool = op'[t].call.name
               /\ result'[t].error_type \in
                      {"FileNotFoundError", "ValueError", "GdbCommandTimeoutError",
                       "GdbSessionError", "SessionNotFoundError", "PermissionError"}
               /\ registry' = registry
               /\ \A s \in DOMAIN lockOwner : lockOwner'[s] # t]_vars
    /\ [](\A t \in {"t1"} :
            pc[t] = "idle" /\ op[t].kind = "tool" /\ ~result[t].ok /\ opsLeft > 0
            => \A c \in ToolCalls : ENABLED ToolCall(t, c))

\* gdb_load was refused for a missing program; the Session is registered,
\* alive and unlocked, and the client can make its next call
C22_Witness ==
    /\ pc["t1"] = "idle" /\ op["t1"].call.name = "gdb_load"
    /\ ~result["t1"].ok /\ ~result["t1"].raised
    /\ result["t1"].error_type = "FileNotFoundError"
    /\ registry = {"s1"} /\ alive["s1"] /\ lockOwner["s1"] = NoOne
    /\ opsLeft = 1

\* C23: a tool named in settings.advanced_tools is exposed exactly when the
\* mode is advanced, and a call of it in default mode ends with
\* PermissionError before any command; a tool not named there is exposed in
\* both modes.
C23_AdvancedGate ==
    /\ \A name \in ServerTools :
           IF name \in settings.advanced_tools
           THEN Exposed(name) <=> settings.mode = "advanced"
           ELSE Exposed(name)
    /\ \A t \in Callers :
           /\ op[t].kind = "tool" /\ op[t].call.name \in ServerTools
           /\ op[t].call.name \in settings.advanced_tools /\ settings.mode = "default"
           => /\ pc[t] = "idle" /\ op[t].log = <<>>
              /\ result[t].error_type = "PermissionError"

\* C24: toggle_breakpoints and delete_breakpoints with an empty list or a
\* number that is not positive, set_watchpoint with an empty expression or an
\* unknown mode, select_thread, frame_up and frame_down with a number that
\* is not positive, and set_program_args with an argument that is not a str
\* end with ValueError and send nothing; toggle_breakpoints and
\* set_watchpoint do so for an unknown session id too.
C24_ValidationFirst ==
    \A t \in Callers :
        LET c == op[t].call
            badList == c.ids = <<>> \/ \E i \in 1..Len(c.ids) : c.ids[i] <= 0
            gated == c.name \in {"gdb_set_watchpoint", "gdb_thread_select"}
                        /\ c.name \in settings.advanced_tools
                        /\ settings.mode # "advanced"
            invalid ==
                \/ c.name = "gdb_toggle_breakpoints" /\ badList
                \/ c.name = "gdb_delete_breakpoints" /\ c.given /\ badList
                \/ c.name = "gdb_set_watchpoint"
                       /\ (Strip(c.expr) = <<>> \/ c.mode \notin {"write", "read", "access"})
                \/ c.name \in {"gdb_thread_select", "frame_up", "frame_down"} /\ c.n <= 0
                \/ c.name = "set_program_args" /\ c.sid \in registry
                       /\ \E i \in 1..Len(c.items) : ~c.items[i]
        IN op[t].kind = "tool" /\ invalid /\ ~gated =>
               /\ pc[t] = "idle" /\ op[t].log = <<>>
               /\ ~result[t].ok /\ result[t].error_type = "ValueError"

\* toggle_breakpoints with a list that holds 0 and set_watchpoint with an
\* unknown mode, each on an unknown session id, were rejected for the argument
C24_Witness ==
    \E t \in Callers :
        /\ pc[t] = "idle" /\ op[t].kind = "tool" /\ op[t].sid \notin registry
        /\ \/ op[t].call.name = "gdb_toggle_breakpoints" /\ op[t].call.ids = <<0>>
           \/ op[t].call.name = "gdb_set_watchpoint" /\ op[t].call.mode = "bad"
                  /\ settings.mode = "advanced"
        /\ result[t].error_type = "ValueError"
        /\ inq["s1"] = <<>> /\ busy["s1"] = Idle

\* t runs load_core, called where the advanced-mode gate lets it through, on
\* a registered Session
RunsLoadCore(t) ==
    /\ op[t].kind = "tool" /\ op[t].call.name = "gdb_load_core"
    /\ op[t].sid \in registry
    /\ ~("gdb_load_core" \in settings.advanced_tools /\ settings.mode # "advanced")

\* C25: load_core with a core-file path that holds whitespace ends with
\* ValueError and sends neither `file` nor `core-file` nor any other command.
C25_WhitespaceCoreRejected ==
    \A t \in Callers :
        RunsLoadCore(t) /\ (\E i \in 1..Len(op[t].call.core) : IsSpace(op[t].call.core[i]))
        => /\ pc[t] = "idle" /\ op[t].log = <<>>
           /\ ~result[t].ok /\ result[t].error_type = "ValueError"

\* C26: a load_core of an existing program and an existing core file
\* without whitespace that returned has sent `file "<program>"`, then
\* `core-file <resolved core path>` without quotes, then `backtrace`, and
\* returns the three outputs in this order.
C26_LoadCoreCommands ==
    \A t \in Callers :
        /\ RunsLoadCore(t) /\ pc[t] = "idle" /\ result[t].ok
        /\ ResolvePath(op[t].call.program) \in Files
        /\ ResolvePath(op[t].call.core) \in Files
        /\ \A i \in 1..Len(op[t].call.core) : ~IsSpace(op[t].call.core[i])
        => LET log == op[t].log IN
           /\ Len(log) = 3
           /\ log[1].cmd \in {<<"file", " ", "\"">> \o p \o <<"\"">> :
                                 p \in {op[t].call.program, ResolvePath(op[t].call.program)}}
           /\ log[2].cmd = <<"core-file", " ">> \o ResolvePath(op[t].call.core)
           /\ log[3].cmd = <<"backtrace">>
           /\ result[t].text = log[1].text \o log[2].text \o log[3].text

\* C27: load_program and load_core with a program path, or load_core with a
\* core-file path, that does not exist once resolved against the working
\* directory end with FileNotFoundError, send no command and leave the
\* target of the Session as it was.
C27_MissingPathRejected ==
    [][\A t \in Callers :
        LET c == op'[t].call IN
        /\ op'[t] # op[t] /\ op'[t].kind = "tool" /\ op'[t].sid \in registry
        /\ \A i \in 1..Len(c.items) : c.items[i]
        /\ \/ c.name = "gdb_load" /\ ResolvePath(c.program) \notin Files
           \/ /\ c.name = "gdb_load_core"
              /\ ~("gdb_load_core" \in settings.advanced_tools /\ settings.mode # "advanced")
              /\ (ResolvePath(c.program) \notin Files \/ ResolvePath(c.core) \notin Files)
        => /\ pc'[t] = "idle" /\ op'[t].log = <<>>
           /\ ~result'[t].ok /\ result'[t].error_type = "FileNotFoundError"
           /\ target' = target /\ inq' = inq]_vars

\* C28: examine with a format letter that gdb does not have, with a count
\* that is not positive or with an empty expression ends with ValueError and
\* sends no x/ command.
C28_ExamineValidates ==
    \A t \in Callers :
        /\ op[t].kind = "tool" /\ op[t].call.name = "gdb_examine"
        /\ "gdb_examine" \notin settings.advanced_tools
        /\ \/ op[t].call.fmt \notin {"x", "d", "u", "o", "t", "a", "c", "f", "s", "i", "z"}
           \/ op[t].call.n <= 0
           \/ Strip(op[t].call.expr) = <<>>
        => /\ pc[t] = "idle" /\ op[t].log = <<>>
           /\ ~result[t].ok /\ result[t].error_type = "ValueError"


\* C29: parse_mi_streams returns the stream records of the output in their
\* order, each run of records of one type and tag merged into a single
\* record whose payload is the payloads of the run concatenated in order: no
\* two consecutive records of the result have the same type and tag, records
\* of different types are never merged, and the structured records are all in
\* parse_mi_records and none of them among the streams, nor a stream among them
C29_StreamsMerged ==
    (ret # NoRet /\ arg.fn = "parse_mi") =>
        LET isStream(l) == l.mark \in {"~", "&", "@"}
            typeOf(l) == CASE l.mark = "~" -> "console" [] l.mark = "&" -> "log"
                           [] OTHER -> "target"
            sl == SelectSeq(arg.lines, isStream)
            run(i) == 1 + Cardinality({j \in 1..(i - 1) : sl[j].mark # sl[j + 1].mark})
            RECURSIVE Payloads(_, _)
            Payloads(k, i) == IF i > Len(sl) THEN <<>>
                              ELSE IF run(i) = k THEN sl[i].payload \o Payloads(k, i + 1)
                              ELSE Payloads(k, i + 1)
            out == ret.streams IN
        /\ Len(out) = IF sl = <<>> THEN 0 ELSE run(Len(sl))
        /\ \A i \in 1..Len(sl) : out[run(i)].type = typeOf(sl[i])
        /\ \A k \in 1..Len(out) : out[k].payload = Payloads(k, 1)
        /\ \A k \in 1..(Len(out) - 1) :
               ~(out[k].type = out[k + 1].type /\ out[k].message = out[k + 1].message)
        /\ \A k \in 1..Len(out) : out[k].type \in {"console", "log", "target"}
        /\ \A k \in 1..Len(ret.records) : ret.records[k].type \in {"result", "notify"}
        /\ Len(ret.records) = Len(SelectSeq(arg.lines, LAMBDA l : l.mark \in {"^", "="}))

\* three console lines and a log line become one console record and one log record
C29_Witness ==
    /\ ret # NoRet
    /\ arg.fn = "parse_mi"
    /\ arg.lines = <<[mark |-> "~", payload |-> <<"a">>], [mark |-> "~", payload |-> <<"b">>],
                     [mark |-> "~", payload |-> <<"a">>], [mark |-> "&", payload |-> <<"b">>]>>
    /\ ret.streams = <<[type |-> "console", message |-> "None", payload |-> <<"a", "b", "a">>],
                       [type |-> "log", message |-> "None", payload |-> <<"b">>]>>


\* C30: parse_breakpoints returns one record for every line that starts with
\* a number, in the order of the lines, with that number; the lines after it
\* that do not start with a number are folded into the record, whose text is
\* the words of all these lines and whose file and line are those of the first
\* `at <file>:<line>` among them, so a location wrapped onto the next line is
\* the record's; the lines before the first numbered line give no record
C30_OneRecordPerId ==
    (ret # NoRet /\ arg.fn = "parse_breakpoints") =>
        LET ls == arg.lines
            out == ret.breakpoints
            Words(l) == SelectSeq(l, LAMBDA a : ~IsSpace(a))
            isId(l) == /\ Words(l) # <<>>
                       /\ Words(l)[1] \in {"1", "2", "3"}
                       /\ Len(Words(l)) > 1
            ids == {i \in 1..Len(ls) : isId(ls[i])}
            kth(k) == CHOOSE i \in ids : Cardinality({j \in ids : j <= i}) = k
            last(k) == IF k = Cardinality(ids) THEN Len(ls) ELSE kth(k + 1) - 1
            RECURSIVE Folded(_, _)
            Folded(i, j) == IF i > j THEN <<>> ELSE Words(ls[i]) \o Folded(i + 1, j)
            locs(k) == SelectSeq(Folded(kth(k), last(k)),
                                 LAMBDA a : a \in {"at f:7", "at f:9"}) IN
        /\ Len(out) = Cardinality(ids)
        /\ \A k \in 1..Len(out) :
               /\ out[k].number = ToInt(Words(ls[kth(k)])[1])
               /\ Words(out[k].raw) = Folded(kth(k), last(k))
               /\ out[k].at = IF locs(k) = <<>> THEN "" ELSE locs(k)[1]

\* a header, an entry whose location is wrapped onto the next line, and an
\* entry on one line give two records
C30_Witness ==
    /\ ret # NoRet
    /\ arg.fn = "parse_breakpoints"
    /\ arg.lines = <<<<"Num", " ", "w">>, <<"2", " ", "w">>, <<" ", "at f:9">>,
                     <<"1", " ", "w", " ", "at f:7">>>>
    /\ ret.breakpoints =
           <<[number |-> 2, raw |-> <<"2", " ", "w", " ", "at f:9">>, at |-> "at f:9"],
             [number |-> 1, raw |-> <<"1", " ", "w", " ", "at f:7">>, at |-> "at f:7"]>>


\* C31: the normalized output contains no carriage return and no terminal
\* control sequence, has no whitespace at its ends, and normalizing it again
\* returns it unchanged
C31_NormalizedIsClean ==
    ret # NoRet =>
        /\ \A i \in 1..Len(ret.output) :
               /\ ret.output[i] # "\r"
               /\ EscapeMatchLen(SubSeq(ret.output, i, Len(ret.output))) = 0
        /\ Strip(ret.output) = ret.output
        /\ NormalizeOutput(ret.output) = ret.output


\* the lines a command string is sent as
LinesOf(command) ==
    LET sent == SplitNL(command \o <<"\n">>, <<>>) IN {sent[i] : i \in 1..Len(sent)}

\* C32: when an execute on a Session has raised a timeout and the process is
\* alive, an execute of another caller on that Session that returns then
\* returns only what gdb printed for its own command, never the late output
\* of the command that timed out
C32_NoLateOutput ==
    [][\A t, u \in Callers :
        /\ t # u /\ ExecuteEnds(t) /\ op[u].sid = op[t].sid
        /\ pc[u] = "idle" /\ result[u].error_type = "GdbCommandTimeoutError"
        /\ alive[op[t].sid]
        /\ result'[t].ok
        => \A i \in 1..Len(result'[t].text) :
               result'[t].text[i].line \in LinesOf(op[t].cmd)]_vars


\* C33: every execute writes exactly one command line to the process, once,
\* and an execute that returns consumes exactly one prompt, for every command
\* string, one with a line break inside included
C33_OneLineOnePrompt ==
    [][\A t \in Callers :
        LET s == op[t].sid
            prompts(buf) == Len(SelectSeq(buf, LAMBDA x : x.prompt)) IN
        /\ pc[t] = "exec" /\ pc'[t] = "wait" => Len(inq'[s]) = Len(inq[s]) + 1
        /\ pc[t] = "wait" => inq'[s] = inq[s] \/ Len(inq'[s]) < Len(inq[s])
        /\ ExecuteEnds(t) /\ HasPrompt(outbuf[s]) =>
               prompts(outbuf'[s]) = prompts(outbuf[s]) - 1]_vars


\* C34: a terminate writes `quit` to the process of a Session only while no
\* command of that Session is in flight, also when it runs in the signal
\* handler on the thread that is inside execute
C34_NoQuitInFlight ==
    [][\A s \in SessionIds :
        QuitsReceived(s)' > QuitsReceived(s) =>
            ~\E t \in DOMAIN pc : pc[t] = "wait" /\ op[t].sid = s]_vars


\* C35: between the first and the last command of a collect_crash_report no
\* other caller sends a command to the Session of the collector
C35_CollectIsOneOperation ==
    [][\A t, u \in Callers :
        /\ t # u
        /\ op[t].kind = "collect" /\ pc[t] \in {"exec", "wait"} /\ op[t].log # <<>>
        /\ op[u].sid = op[t].sid
        => ~(pc[u] = "exec" /\ pc'[u] = "wait")]_vars


\* C36: a collect_crash_report whose commands all succeed sends `frame 0`
\* and later the restoring `frame N` exactly when frame N > 0 was selected at
\* the call; with frame 0 selected it sends no frame selection
C36_SwitchAndRestore ==
    \A t \in Callers :
        (/\ CollectReturned(t)
         /\ \A i \in 1..Len(op[t].log) : op[t].log[i].exc = "none")
        => LET log == op[t].log
               N == op[t].frame0
               switches == {i \in 1..Len(log) : log[i].cmd = <<"frame", " ", "0">>}
               restores == {i \in 1..Len(log) : N > 0 /\ log[i].cmd = <<"frame", " ", ToStr(N)>>}
           IN /\ N > 0 => /\ Cardinality(switches) = 1
                          /\ Cardinality(restores) = 1
                          /\ \A i \in switches, j \in restores : i < j
              /\ N = 0 => \A i \in 1..Len(log) :
                              ~(Len(log[i].cmd) = 3 /\ log[i].cmd[1] = "frame")


\* C38: the target of a Session changes only when a load_program returns,
\* and when a load_program returns the target is the resolved path of its
\* program if its `file` command succeeded, also when `set args` failed
\* after it, and is unchanged if the call failed before or during `file`
C38_TargetIsLoadedProgram ==
    [][/\ \A t \in Callers :
            (/\ op'[t].kind = "tool" /\ op'[t].call.name = "gdb_load"
             /\ pc'[t] = "idle" /\ op'[t] # op[t])
            => IF op'[t].log # <<>> /\ op'[t].log[1].exc = "none"
               THEN target'[op'[t].sid] = ResolvePath(op'[t].call.program)
               ELSE target' = target
       /\ target' # target =>
            \E t \in Callers : /\ op[t].kind = "tool" /\ op[t].call.name = "gdb_load"
                               /\ pc[t] = "wait" /\ pc'[t] = "idle"]_vars


\* caller t has written `quit` to the process of Session s in the operation
\* it runs or has just ended
SentQuit(t, s) ==
    \/ pc[t] \in {"term_wait", "term_eof"} /\ op[t].sid = s
    \/ /\ op[t].kind \in {"terminate_session", "terminate_all"}
       /\ \E i \in 1..Len(op[t].log) :
              /\ op[t].log[i].cmd = <<s>> /\ op[t].log[i].exc = "none"
              /\ op[t].log[i].msg # "not alive"

\* C39: when callers terminate the same Session concurrently, by
\* terminate_session or by terminate_all, only one of them writes `quit` to
\* its process; every terminate_session that got hold of the Session returns
\* with the process dead and the id unregistered, and one that comes after
\* the removal fails with SessionNotFoundError; terminate_all never raises,
\* tries every Session of its snapshot and leaves each dead and unregistered
C39_TerminateRace ==
    /\ [](\A s \in SessionIds :
            /\ QuitsReceived(s) <= 1
            /\ Cardinality({t \in Callers : SentQuit(t, s)}) <= 1)
    /\ [][\A t \in Callers :
            /\ op[t].kind = "terminate_session" /\ Returns(t) =>
                   /\ result'[t].ok
                   /\ ~alive'[op[t].sid]
                   /\ op[t].sid \notin registry'
            /\ Calls(t) /\ op'[t].kind = "terminate_session" /\ pc'[t] = "idle" =>
                   /\ result'[t].error_type = "SessionNotFoundError"
                   /\ op'[t].sid \notin registry
            /\ TerminateAllReturns(t) =>
                   /\ result'[t].ok
                   /\ TriedAll(t)
                   /\ \A i \in 1..Len(op[t].ids) :
                          /\ op'[t].log[i].exc \in {"none", "SessionNotFoundError"}
                          /\ ~alive'[op[t].ids[i]]
                          /\ op[t].ids[i] \notin registry']_vars

\* two terminate_session calls on the same Session ran at once: one wrote
\* `quit`, the other found the process dead, both returned
C39_Witness ==
    \E t1, t2 \in Callers :
        /\ t1 # t2 /\ op[t1].sid = op[t2].sid
        /\ op[t1].kind = "terminate_session" /\ op[t2].kind = "terminate_session"
        /\ pc[t1] = "idle" /\ result[t1].tool = "terminate_session" /\ result[t1].ok
        /\ pc[t2] = "idle" /\ result[t2].tool = "terminate_session" /\ result[t2].ok
        /\ SentQuit(t1, op[t1].sid)
        /\ op[t2].log # <<>> /\ op[t2].log[1].msg = "not alive"
        /\ op[t1].sid \notin registry /\ ~alive[op[t1].sid]


\* C40: every execute and every terminate that a caller has begun on a
\* Session ends, whatever the process does, and whenever no call is inside a
\* Session its lock is free, so a caller queued on the lock gets it
C40_CallsEnd ==
    /\ \A t \in Callers : (pc[t] # "idle") ~> (pc[t] = "idle")
    /\ [](\A s \in Sessions :
            (\A t \in Callers : ~Holds(t, s)) => lockOwner[s] = NoOne)

\* a caller queued behind an execute that timed out got the lock, and its
\* terminate has returned
C40_Witness ==
    \E t1, t2 \in Callers :
        /\ t1 # t2 /\ op[t1].sid = op[t2].sid
        /\ pc[t1] = "idle" /\ result[t1].error_type = "GdbCommandTimeoutError"
        /\ pc[t2] = "idle" /\ result[t2].tool = "terminate" /\ result[t2].ok
        /\ op[t2].log # <<>> /\ op[t2].log[1].msg # "not alive"
        /\ lockOwner[op[t1].sid] = NoOne

====
